---- MODULE Spec2Model ----
(***************************************************************************)
(* The batched FJSP scheduling-state simulator of env/fjsp_env.py          *)
(* (class FJSPEnv): construction, step() with its time-advance loop        *)
(* (if_no_eligible / next_time), reset() and validate_gantt().             *)
(*                                                                         *)
(* Indices are 0-based as in the source.  A tensor of shape (a, b, c) is a *)
(* function [0..a-1 -> [0..b-1 -> [0..c-1 -> value]]].                     *)
(*                                                                         *)
(* Times and durations are kept in ticks of 1/TimeUnit of the instance     *)
(* file's time unit, TimeUnit being a common multiple of 1..num_mas, so    *)
(* that the mean duration over the eligible machines (a float in the       *)
(* source) is an exact integer number of ticks.                            *)
(***************************************************************************)
EXTENDS Integers, Sequences, FiniteSets, TLC

\* ---------------------------------------------------------------- sizes
\* env_paras["num_jobs"], env_paras["num_mas"]: fixed for one environment.
num_jobs == 2
num_mas == 2

\* Bounds of the input space explored.
MaxBatch == 2
MaxOpsPerJob == 2
MaxIneligible == 1
MaxTotalOpes == 5
MaxDurTable == 1
MaxIters == 3
MaxMisuses == 1

Jobs == 0 .. (num_jobs - 1)
Mas == 0 .. (num_mas - 1)

\* ---------------------------------------------------------------- helpers
RECURSIVE Fact(_)
Fact(n) == IF n <= 1 THEN 1 ELSE n * Fact(n - 1)

TimeUnit == Fact(num_mas)

RECURSIVE SumOver(_, _)
SumOver(S, f) ==
    IF S = {} THEN 0
    ELSE LET x == CHOOSE y \in S : TRUE IN f[x] + SumOver(S \ {x}, f)

MaxOf(S) == CHOOSE x \in S : \A y \in S : y <= x
MinOf(S) == CHOOSE x \in S : \A y \in S : x <= y

\* torch.count_nonzero over a set of entries
CountNonzero(S, f) == Cardinality({x \in S : f[x] # 0})

\* ---------------------------------------------------------------- instances
\* The duration tables the instances are drawn from (ticks excluded).
\* Table 0 repeats the operation-by-machine durations
\* [[3,5],[4,2],[2,6],[5,3]]; table k >= 1 has durations 1..k+1 with ties.
ScenarioDur == << <<3, 5>>, <<4, 2>>, <<2, 6>>, <<5, 3>> >>

DurTable(k, o, m) ==
    IF k = 0 THEN ScenarioDur[(o % 4) + 1][(m % 2) + 1] + (m \div 2)
    ELSE 1 + ((o + m + k) % (k + 1))

\* id of the first operation of job j when the jobs have sz[j] operations
Bias(sz, j) == SumOver({i \in Jobs : i < j}, sz)
TotalOpes(sz) == SumOver(Jobs, sz)

RECURSIVE SubsetsUpTo(_, _)
SubsetsUpTo(S, k) ==
    IF k = 0 THEN {{}}
    ELSE LET R == SubsetsUpTo(S, k - 1)
         IN R \cup {s \cup {p} : s \in R, p \in S}

\* The batches an environment is constructed from: batch_size instance
\* files with the same number of jobs and machines.  An instance file gives
\* the number of operations of each job (nums) and the durations of the
\* eligible (operation, machine) pairs; the durations come from one table
\* (tbl), and the pairs in inel are absent from the file (duration 0).
\* Well-formed: every operation keeps at least one machine.
CasesOfShape(B, sz) ==
    LET BB == 0 .. (B - 1)
        triples == UNION { {b} \X (0 .. (TotalOpes(sz[b]) - 1)) \X Mas : b \in BB }
        inels == { t \in SubsetsUpTo(triples, MaxIneligible) :
                     \A b \in BB : \A o \in 0 .. (TotalOpes(sz[b]) - 1) :
                        \E m \in Mas : <<b, o, m>> \notin t }
    IN { [b \in BB |->
            [nums |-> sz[b], tbl |-> k,
             inel |-> {<<p[2], p[3]>> : p \in {q \in t : q[1] = b}}]] :
         k \in 0 .. MaxDurTable, t \in inels }

Cases ==
    UNION { UNION { CasesOfShape(B, sz) :
                sz \in { s \in [0 .. (B - 1) -> [Jobs -> 1 .. MaxOpsPerJob]] :
                           SumOver(0 .. (B - 1),
                                   [b \in 0 .. (B - 1) |-> TotalOpes(s[b])])
                               <= MaxTotalOpes } }
            : B \in 1 .. MaxBatch }

\* ---------------------------------------------------------------- load_fjs
\* What load_fjs(lines, num_mas, num_opes) returns for one instance, padded
\* to num_opes operations (n_opes).
LoadProcTime(ins, n_opes) ==
    [o \in 0 .. (n_opes - 1) |-> [m \in Mas |->
        IF o < TotalOpes(ins.nums) /\ <<o, m>> \notin ins.inel
        THEN DurTable(ins.tbl, o, m) * TimeUnit ELSE 0]]

LoadOpeMaAdj(ins, n_opes) ==
    [o \in 0 .. (n_opes - 1) |-> [m \in Mas |->
        IF LoadProcTime(ins, n_opes)[o][m] > 0 THEN 1 ELSE 0]]

LoadNumOpeBiases(ins) == [j \in Jobs |-> Bias(ins.nums, j)]

\* job of operation o; the padding operations are mapped to job 0
LoadOpesAppertain(ins, n_opes) ==
    [o \in 0 .. (n_opes - 1) |->
        IF o < TotalOpes(ins.nums)
        THEN CHOOSE j \in Jobs :
                Bias(ins.nums, j) <= o /\ o < Bias(ins.nums, j) + ins.nums[j]
        ELSE 0]

\* precedence: an arc from each operation to its direct successor in the job
LoadOpePreAdj(ins, n_opes) ==
    [i \in 0 .. (n_opes - 1) |-> [k \in 0 .. (n_opes - 1) |->
        /\ k = i + 1
        /\ k < TotalOpes(ins.nums)
        /\ LoadOpesAppertain(ins, n_opes)[i] = LoadOpesAppertain(ins, n_opes)[k]]]

LoadOpeSubAdj(ins, n_opes) ==
    [i \in 0 .. (n_opes - 1) |-> [k \in 0 .. (n_opes - 1) |->
        LoadOpePreAdj(ins, n_opes)[k][i]]]

\* cumulative path: row i has a 1 in the column of every later operation
\* of the same job
LoadCalCumulAdj(ins, n_opes) ==
    [i \in 0 .. (n_opes - 1) |-> [k \in 0 .. (n_opes - 1) |->
        IF /\ i < k
           /\ k < TotalOpes(ins.nums)
           /\ LoadOpesAppertain(ins, n_opes)[i] = LoadOpesAppertain(ins, n_opes)[k]
        THEN 1 ELSE 0]]

\* ---------------------------------------------------------------- state
VARIABLES
    \* static fields of FJSPEnv
    batch_size, num_opes,
    ope_pre_adj_batch, ope_sub_adj_batch, opes_appertain_batch,
    num_ope_biases_batch, nums_ope_batch, end_ope_biases_batch, nums_opes,
    \* dynamic fields of FJSPEnv
    proc_times_batch, ope_ma_adj_batch, cal_cumul_adj_batch,
    feat_opes_batch, feat_mas_batch,
    batch_idxes, time, N, ope_step_batch,
    mask_job_procing_batch, mask_job_finish_batch, mask_ma_procing_batch,
    schedules_batch, machines_batch,
    makespan_batch, done_batch,
    \* the rewards the last step() returned (the attribute does not exist
    \* before the first step(): 0 stands for it; reset() leaves it alone)
    reward_batch,
    state,
    \* the initial data saved for reset()
    old_proc_times_batch, old_ope_ma_adj_batch, old_cal_cumul_adj_batch,
    old_feat_opes_batch, old_feat_mas_batch, old_state,
    \* control: where step() is, the value of if_no_eligible() computed last
    \* (the local flag_trans_2_next_time of step()), the number of next_time()
    \* calls of the round, the last verdict of validate_gantt()
    pc, flag_trans_2_next_time, iters, gantt_result,
    \* history: the operation performed last, the rewards summed per instance
    \* since construction or reset(), the dynamic fields as __init__ left them,
    \* the largest round count N of the episode the last reset() closed, when
    \* it found every instance done (0 otherwise, and when a step() followed
    \* it), the actions the last step() was called with (none since
    \* construction or reset(): the empty list), the number of step() calls
    \* since construction or reset() with a decision outside the policy's mask
    last_op, reward_sum, fresh, rounds_before_reset, actions_taken, misuses,
    \* shadow: for each shadowed instance, an environment of batch size 1
    \* built from that instance alone and given that instance's decisions
    \* (run: where it is now, fresh: as its construction left it); no
    \* instance is shadowed unless the initial condition says so
    solo,
    \* record of the rounds, kept only when the initial condition turns it
    \* on: what each step() of the episode that followed the construction
    \* was given and returned (constructed), the same for the episode in
    \* progress (current), and whether reset() has been called
    replay

statics == << batch_size, num_opes, ope_pre_adj_batch, ope_sub_adj_batch,
              opes_appertain_batch, num_ope_biases_batch, nums_ope_batch,
              end_ope_biases_batch, nums_opes >>

olds == << old_proc_times_batch, old_ope_ma_adj_batch, old_cal_cumul_adj_batch,
           old_feat_opes_batch, old_feat_mas_batch, old_state >>

dynamics == << proc_times_batch, ope_ma_adj_batch, cal_cumul_adj_batch,
               feat_opes_batch, feat_mas_batch, batch_idxes, time, N,
               ope_step_batch, mask_job_procing_batch, mask_job_finish_batch,
               mask_ma_procing_batch, schedules_batch, machines_batch,
               makespan_batch, done_batch, reward_batch, state >>

vars == << statics, dynamics, olds, pc, flag_trans_2_next_time, iters,
           gantt_result, last_op, reward_sum, fresh, rounds_before_reset,
           actions_taken, misuses, solo, replay >>

Batch == 0 .. (batch_size - 1)
Opes == 0 .. (num_opes - 1)

\* The dynamic state of the environment as one record.
Dynamic(pt, adj, cumul, fo, fm, idx, t, step, mjp, mjf, mmp, sched, mach, mk, dn, st) ==
    [ proc_times_batch |-> pt, ope_ma_adj_batch |-> adj, cal_cumul_adj_batch |-> cumul,
      feat_opes_batch |-> fo, feat_mas_batch |-> fm, batch_idxes |-> idx, time |-> t,
      ope_step_batch |-> step, mask_job_procing_batch |-> mjp,
      mask_job_finish_batch |-> mjf, mask_ma_procing_batch |-> mmp,
      schedules_batch |-> sched, machines_batch |-> mach, makespan_batch |-> mk,
      done_batch |-> dn, state |-> st ]

CurrentDynamic ==
    Dynamic(proc_times_batch, ope_ma_adj_batch, cal_cumul_adj_batch, feat_opes_batch,
            feat_mas_batch, batch_idxes, time, ope_step_batch, mask_job_procing_batch,
            mask_job_finish_batch, mask_ma_procing_batch, schedules_batch,
            machines_batch, makespan_batch, done_batch, state)

\* A tensor is computed when it is assigned and read many times: the
\* value of f with every entry evaluated (a function constructor passed
\* on as it is written is evaluated again at each application).
Eager(f) == IF f = f THEN f ELSE f

\* torch.arange(n) as a sequence
Arange(n) == [k \in 1 .. n |-> k - 1]

\* ---------------------------------------------------------------- features
\* sum / (count + 1e-9): the mean over the eligible machines, 0 for none
MeanProcTime(row, cnt) == IF cnt = 0 THEN 0 ELSE SumOver(Mas, row) \div cnt

\* min(busy, clock) / (clock + eps) with eps = 10^-epsexp, kept as the exact
\* triple (numerator, clock, epsexp); a zero numerator gives 0 whatever eps
Utiliz(busy, clock, epsexp) ==
    LET num == IF busy < clock THEN busy ELSE clock
    IN IF num = 0 THEN <<0, 1, 0>> ELSE <<num, clock, epsexp>>

\* torch.bmm(vec.unsqueeze(1), cumul).squeeze(): column sums weighted by vec
Bmm(n_opes, vec, cumul) ==
    [k \in 0 .. (n_opes - 1) |->
        SumOver(0 .. (n_opes - 1), [i \in 0 .. (n_opes - 1) |-> vec[i] * cumul[i][k]])]

\* convert_feat_job_2_ope: result[o] = feat_job[opes_appertain[o]]
convert_feat_job_2_ope(feat_job, appertain) ==
    [o \in DOMAIN appertain |-> feat_job[appertain[o]]]

\* The operation features FJSPEnv.__init__ computes for one instance.
InitFeatOpes(n_opes, proc, adj, cumul, nums, appertain, ends) ==
    LET O == 0 .. (n_opes - 1)
        f1 == [o \in O |-> CountNonzero(Mas, adj[o])]
        f2 == [o \in O |-> MeanProcTime(proc[o], f1[o])]
        f3 == convert_feat_job_2_ope(nums, appertain)
        f5 == Bmm(n_opes, f2, cumul)
        end_time == [j \in Jobs |-> f5[ends[j]] + f2[ends[j]]]
        f4 == convert_feat_job_2_ope(end_time, appertain)
    IN [f \in 0 .. 5 |->
          CASE f = 0 -> [o \in O |-> 0]
            [] f = 1 -> f1
            [] f = 2 -> f2
            [] f = 3 -> f3
            [] f = 4 -> f4
            [] f = 5 -> f5]

\* The machine features FJSPEnv.__init__ computes for one instance.
InitFeatMas(n_opes, adj) ==
    [f \in 0 .. 2 |->
        CASE f = 0 -> [m \in Mas |->
                         CountNonzero(0 .. (n_opes - 1), [o \in 0 .. (n_opes - 1) |-> adj[o][m]])]
          [] f = 1 -> [m \in Mas |-> 0]
          [] f = 2 -> [m \in Mas |-> Utiliz(0, 0, 0)]]

\* schedules_batch of one instance from its operation features; the four
\* columns Status, Allocated machine, Start time, End time are the fields
\* status, ma, start, end
InitSchedules(n_opes, feat) ==
    [o \in 0 .. (n_opes - 1) |->
        [status |-> 0, ma |-> 0, start |-> feat[5][o], end |-> feat[5][o] + feat[2][o]]]

\* machines_batch of one instance; the four columns are the fields idle,
\* available_time, utilization_time, id_ope (the job being served)
InitMachines ==
    [m \in Mas |-> [idle |-> 1, available_time |-> 0, utilization_time |-> 0, id_ope |-> 0]]

\* the completion time of the first operation's job taken for the maximum
MaxJobEndFirstJob(feat) == feat[4][0]

\* torch.max(feat_opes_batch[:, 4, :], dim=1)[0] for one instance
MaxJobEnd(feat) == MaxOf({feat[4][o] : o \in DOMAIN feat[4]})

\* ---------------------------------------------------------------- masks
\* the finished mask never refreshed
RefreshJobFinishKept(mask, step, ends) == mask

\* the finished mask set one operation early
RefreshJobFinishEarly(mask, step, ends) ==
    [j \in Jobs |-> IF step[j] = ends[j] THEN TRUE ELSE mask[j]]

\* torch.where(ope_step_batch == end_ope_biases_batch + 1, True, mask), one instance
RefreshJobFinish(mask, step, ends) ==
    [j \in Jobs |-> IF step[j] = ends[j] + 1 THEN TRUE ELSE mask[j]]

\* if_no_eligible() for one instance: the sum of the durations of the
\* pending operation of every eligible job on every eligible machine
IfNoEligible(proc, step, ends, mjp, mjf, mmp) ==
    LET ope_step == [j \in Jobs |-> IF step[j] > ends[j] THEN ends[j] ELSE step[j]]
        pairs == Jobs \X Mas
    IN SumOver(pairs, [p \in pairs |->
          IF ~mmp[p[2]] /\ ~(mjp[p[1]] \/ mjf[p[1]])
          THEN proc[ope_step[p[1]]][p[2]] ELSE 0])

\* ---------------------------------------------------------------- __init__
EnvState(idx, fo, fm, pt, adj, pre, sub, mjp, mjf, mmp, app, step, ends, t, nopes) ==
    [ batch_idxes |-> idx, feat_opes_batch |-> fo, feat_mas_batch |-> fm,
      proc_times_batch |-> pt, ope_ma_adj_batch |-> adj,
      ope_pre_adj_batch |-> pre, ope_sub_adj_batch |-> sub,
      mask_job_procing_batch |-> mjp, mask_job_finish_batch |-> mjf,
      mask_ma_procing_batch |-> mmp, opes_appertain_batch |-> app,
      ope_step_batch |-> step, end_ope_biases_batch |-> ends,
      time_batch |-> t, nums_opes_batch |-> nopes ]

Construct(c) ==
    LET B == Cardinality(DOMAIN c)
        BB == 0 .. (B - 1)
        n_opes == MaxOf({TotalOpes(c[b].nums) : b \in BB})
        pt == [b \in BB |-> LoadProcTime(c[b], n_opes)]
        adj == [b \in BB |-> LoadOpeMaAdj(c[b], n_opes)]
        cumul == [b \in BB |-> LoadCalCumulAdj(c[b], n_opes)]
        pre == [b \in BB |-> LoadOpePreAdj(c[b], n_opes)]
        sub == [b \in BB |-> LoadOpeSubAdj(c[b], n_opes)]
        app == [b \in BB |-> LoadOpesAppertain(c[b], n_opes)]
        biases == [b \in BB |-> LoadNumOpeBiases(c[b])]
        nums == [b \in BB |-> c[b].nums]
        ends == [b \in BB |-> [j \in Jobs |-> biases[b][j] + nums[b][j] - 1]]
        nopes == [b \in BB |-> SumOver(Jobs, nums[b])]
        fo == [b \in BB |->
                 InitFeatOpes(n_opes, pt[b], adj[b], cumul[b], nums[b], app[b], ends[b])]
        fm == [b \in BB |-> InitFeatMas(n_opes, adj[b])]
        mjp == [b \in BB |-> [j \in Jobs |-> FALSE]]
        mjf == [b \in BB |-> [j \in Jobs |-> FALSE]]
        mmp == [b \in BB |-> [m \in Mas |-> FALSE]]
        t == [b \in BB |-> 0]
        st == EnvState(Arange(B), fo, fm, pt, adj, pre, sub, mjp, mjf, mmp,
                       app, biases, ends, t, nopes)
    IN /\ batch_size = B
       /\ num_opes = n_opes
       /\ proc_times_batch = pt
       /\ ope_ma_adj_batch = adj
       /\ cal_cumul_adj_batch = cumul
       /\ ope_pre_adj_batch = pre
       /\ ope_sub_adj_batch = sub
       /\ opes_appertain_batch = app
       /\ num_ope_biases_batch = biases
       /\ nums_ope_batch = nums
       /\ end_ope_biases_batch = ends
       /\ nums_opes = nopes
       /\ batch_idxes = Arange(B)
       /\ time = t
       /\ N = [b \in BB |-> 0]
       /\ ope_step_batch = biases
       /\ feat_opes_batch = fo
       /\ feat_mas_batch = fm
       /\ mask_job_procing_batch = mjp
       /\ mask_job_finish_batch = mjf
       /\ mask_ma_procing_batch = mmp
       /\ schedules_batch = [b \in BB |-> InitSchedules(n_opes, fo[b])]
       /\ machines_batch = [b \in BB |-> InitMachines]
       /\ makespan_batch = [b \in BB |-> MaxJobEnd(fo[b])]
       /\ done_batch = [b \in BB |-> \A j \in Jobs : mjf[b][j]]
       /\ reward_batch = [b \in BB |-> 0]
       /\ state = st
       /\ old_proc_times_batch = pt
       /\ old_ope_ma_adj_batch = adj
       /\ old_cal_cumul_adj_batch = cumul
       /\ old_feat_opes_batch = fo
       /\ old_feat_mas_batch = fm
       /\ old_state = st
       /\ pc = "idle"
       /\ flag_trans_2_next_time =
             [b \in BB |-> IfNoEligible(pt[b], biases[b], ends[b], mjp[b], mjf[b], mmp[b])]
       /\ iters = 0
       /\ gantt_result = "none"
       /\ last_op = "init"
       /\ reward_sum = [b \in BB |-> 0]
       /\ rounds_before_reset = 0
       /\ actions_taken = << >>
       /\ misuses = 0
       /\ fresh = Dynamic(pt, adj, cumul, fo, fm, Arange(B), t, biases, mjp, mjf, mmp,
                          [b \in BB |-> InitSchedules(n_opes, fo[b])],
                          [b \in BB |-> InitMachines],
                          [b \in BB |-> MaxJobEnd(fo[b])],
                          [b \in BB |-> \A j \in Jobs : mjf[b][j]], st)

\* no round recorded
ReplayOff == [on |-> FALSE, constructed |-> << >>, current |-> << >>,
              after_reset |-> FALSE]

\* the rounds recorded from the construction on
ReplayOn == [on |-> TRUE, constructed |-> << >>, current |-> << >>,
             after_reset |-> FALSE]

\* no instance shadowed
SoloNone == [run |-> << >>, fresh |-> << >>]

Init == \E c \in Cases : Construct(c) /\ solo = SoloNone /\ replay = ReplayOff

\* ---------------------------------------------------------------- step()
\* Position of instance b in the active list, and the active instances.
Active == {batch_idxes[k] : k \in 1 .. Len(batch_idxes)}
Pos(b) == CHOOSE k \in 1 .. Len(batch_idxes) : batch_idxes[k] = b

\* remain_ope_ma_adj: 1 at the machine used, 0 elsewhere
RemainOpeMaAdj(ma) == [m \in Mas |-> IF m = ma THEN 1 ELSE 0]

\* the row of every operation replaced, not only the chosen one's
PruneOpeMaAdjAllRows(adj, ope, ma) == [o \in DOMAIN adj |-> RemainOpeMaAdj(ma)]

\* the chosen arc set without the other arcs of the row being removed
PruneOpeMaAdjKeepRow(adj, ope, ma) == [adj EXCEPT ![ope][ma] = 1]

\* ope_ma_adj_batch[b, ope] = remain_ope_ma_adj[b, :]
PruneOpeMaAdj(adj, ope, ma) == [adj EXCEPT ![ope] = RemainOpeMaAdj(ma)]

\* proc_times_batch *= ope_ma_adj_batch, for one instance
MaskProcTimes(proc, adj) ==
    [o \in DOMAIN proc |-> [m \in Mas |-> proc[o][m] * adj[o][m]]]

\* the row of the chosen operation itself
LastOpesOwn(n_opes, ope, job, biases) == ope

\* last_opes: the operation before the chosen one, or the last row of the
\* tensor when the chosen one is the first of its job
LastOpesAt(n_opes, ope, job, biases) ==
    IF ope - 1 < biases[job] THEN n_opes - 1 ELSE ope - 1

\* last_opes in the environment, whose tensors have num_opes rows
LastOpes(ope, job, biases) == LastOpesAt(num_opes, ope, job, biases)

\* the column zeroed instead of the row
ZeroCumulColumn(cumul, row) == [i \in DOMAIN cumul |-> [cumul[i] EXCEPT ![row] = 0]]

\* cal_cumul_adj_batch[b, last_opes, :] = zeros
ZeroCumulRow(cumul, row) == [cumul EXCEPT ![row] = [k \in DOMAIN cumul |-> 0]]

\* the range taken without its last operation
DecRemainingOpenEnd(f3, start_ope, end_ope) ==
    [o \in DOMAIN f3 |-> IF start_ope <= o /\ o < end_ope THEN f3[o] - 1 ELSE f3[o]]

\* 'Number of unscheduled operations in the job': -1 on the job's range
DecRemaining(f3, start_ope, end_ope) ==
    [o \in DOMAIN f3 |-> IF start_ope <= o /\ o <= end_ope THEN f3[o] - 1 ELSE f3[o]]

\* Start times after the decision: a scheduled operation keeps its start,
\* an unscheduled one gets the sum over its cumulative-adjacency column of
\* (start of the scheduled + duration feature)
StartTimes(f0, f2, f5, cumul) ==
    LET O == DOMAIN f5
        start_times == [o \in O |-> f5[o] * f0[o]]
        estimate_times ==
            LET prod == Bmm(Cardinality(O), Eager([o \in O |-> start_times[o] + f2[o]]),
                            cumul)
            IN [o \in O |-> prod[o] * (1 - f0[o])]
    IN [o \in O |-> start_times[o] + estimate_times[o]]

\* Operation features of one active instance after its decision
\* (ope, ma, job) at clock t, with pt the duration on the chosen arc.
StepFeatOpes(feat, ope, job, pt, t, cumul, biases, ends, appertain) ==
    LET f0 == [feat[0] EXCEPT ![ope] = 1]
        f1 == [feat[1] EXCEPT ![ope] = 1]
        f2 == [feat[2] EXCEPT ![ope] = pt]
        f3 == DecRemaining(feat[3], biases[job], ends[job])
        WithStartTimes(f5) ==
            LET end_time == [j \in Jobs |-> f5[ends[j]] + f2[ends[j]]]
                f4 == convert_feat_job_2_ope(end_time, appertain)
            IN [f \in 0 .. 5 |->
                  CASE f = 0 -> f0
                    [] f = 1 -> f1
                    [] f = 2 -> f2
                    [] f = 3 -> f3
                    [] f = 4 -> f4
                    [] f = 5 -> f5]
    IN WithStartTimes(Eager(StartTimes(f0, f2, [feat[5] EXCEPT ![ope] = t], cumul)))

\* the end column left as it was
StepSchedulesStaleEnd(sched, feat, ope, ma) ==
    [o \in DOMAIN sched |->
        [status |-> IF o = ope THEN 1 ELSE sched[o].status,
         ma     |-> IF o = ope THEN ma ELSE sched[o].ma,
         start  |-> feat[5][o],
         end    |-> sched[o].end]]

\* Update partial schedule (state): the chosen row gets status and machine,
\* every row gets start and end from the operation features
StepSchedules(sched, feat, ope, ma) ==
    [o \in DOMAIN sched |->
        [status |-> IF o = ope THEN 1 ELSE sched[o].status,
         ma     |-> IF o = ope THEN ma ELSE sched[o].ma,
         start  |-> feat[5][o],
         end    |-> feat[5][o] + feat[2][o]]]

\* the available time set to the duration, the clock left out
StepMachinesNoClock(machines, ma, job, pt, t) ==
    [machines EXCEPT ![ma] =
        [idle |-> 0, available_time |-> pt,
         utilization_time |-> @.utilization_time + pt, id_ope |-> job]]

\* machines_batch[b, ma, :] after the decision
StepMachines(machines, ma, job, pt, t) ==
    [machines EXCEPT ![ma] =
        [idle |-> 0, available_time |-> t + pt,
         utilization_time |-> @.utilization_time + pt, id_ope |-> job]]

\* Update feature vectors of machines
StepFeatMas(fm, adj, machines, ma, pt, t) ==
    [f \in 0 .. 2 |->
        CASE f = 0 -> [m \in Mas |-> CountNonzero(Opes, [o \in Opes |-> adj[o][m]])]
          [] f = 1 -> [fm[1] EXCEPT ![ma] = t + pt]
          [] f = 2 -> [m \in Mas |-> Utiliz(machines[m].utilization_time, t, 9)]]

\* The decisions the dispatching policy may send for instance b: a job
\* neither in process nor finished, its pending operation, and an idle
\* machine with a positive duration for it.
LegalDecision(b, a) ==
    /\ ~mask_job_procing_batch[b][a.job]
    /\ ~mask_job_finish_batch[b][a.job]
    /\ a.ope = ope_step_batch[b][a.job]
    /\ a.ope \in Opes
    /\ ~mask_ma_procing_batch[b][a.ma]
    /\ proc_times_batch[b][a.ope][a.ma] > 0

Decisions == [ope : Opes, ma : Mas, job : Jobs]

\* actions[k] is the decision of instance batch_idxes[k]
RECURSIVE LegalActionsFrom(_)
LegalActionsFrom(k) ==
    IF k > Len(batch_idxes) THEN { << >> }
    ELSE { << a >> \o rest :
             a \in {x \in Decisions : LegalDecision(batch_idxes[k], x)},
             rest \in LegalActionsFrom(k + 1) }

LegalActions == LegalActionsFrom(1)

\* the pointer of a job that never moves
AdvanceOpeStepStuck(step, job) == step

\* ope_step_batch[b, job] += 1
AdvanceOpeStep(step, job) == [step EXCEPT ![job] = @ + 1]

\* the reward with the two makespans swapped
RewardSwapped(makespan, max_val) == max_val - makespan

\* reward_batch = makespan_batch - max_val
Reward(makespan, max_val) == makespan - max_val

\* ---------------------------------------------------------------- batch of one
\* FJSPEnv.__init__ on the single instance ins: every tensor has the
\* instance's own number of operations, nothing is padded
SoloConstruct(ins) ==
    LET n == TotalOpes(ins.nums)
        pt == LoadProcTime(ins, n)
        adj == LoadOpeMaAdj(ins, n)
        cumul == LoadCalCumulAdj(ins, n)
        app == LoadOpesAppertain(ins, n)
        biases == LoadNumOpeBiases(ins)
        ends == [j \in Jobs |-> biases[j] + ins.nums[j] - 1]
        fo == InitFeatOpes(n, pt, adj, cumul, ins.nums, app, ends)
        mjp == [j \in Jobs |-> FALSE]
        mjf == [j \in Jobs |-> FALSE]
        mmp == [m \in Mas |-> FALSE]
    IN [ n_opes |-> n, biases |-> biases, ends |-> ends, appertain |-> app,
         proc |-> pt, adj |-> adj, cumul |-> cumul, feat |-> fo,
         sched |-> InitSchedules(n, fo), mach |-> InitMachines,
         step |-> biases, mjp |-> mjp, mjf |-> mjf, mmp |-> mmp,
         time |-> 0, makespan |-> MaxJobEnd(fo),
         done |-> \A j \in Jobs : mjf[j], reward |-> 0, reward_sum |-> 0,
         flag |-> IfNoEligible(pt, biases, ends, mjp, mjf, mmp) ]

\* The assignments of step() before its while loop on a batch of one, from
\* the tensors the decision a gives
SoloStepAssign(s, a, adj1, proc1, cumul1, fo1, step1, mjp1, mmp1, mjf1) ==
    LET pt == proc1[a.ope][a.ma]
        max_val == MaxJobEnd(fo1)
    IN [s EXCEPT !.adj = adj1, !.proc = proc1, !.cumul = cumul1, !.feat = fo1,
                 !.sched = StepSchedules(s.sched, fo1, a.ope, a.ma),
                 !.mach = StepMachines(s.mach, a.ma, a.job, pt, s.time),
                 !.step = step1, !.mjp = mjp1, !.mmp = mmp1, !.mjf = mjf1,
                 !.done = \A j \in Jobs : mjf1[j],
                 !.reward = Reward(s.makespan, max_val),
                 !.reward_sum = @ + Reward(s.makespan, max_val),
                 !.makespan = max_val,
                 !.flag = IfNoEligible(proc1, step1, s.ends, mjp1, mjf1, mmp1)]

\* The part of step() before its while loop, on a batch of one with the
\* decision a
SoloStep(s, a) ==
    LET adj1 == PruneOpeMaAdj(s.adj, a.ope, a.ma)
        proc1 == MaskProcTimes(s.proc, adj1)
        pt == proc1[a.ope][a.ma]
        cumul1 == ZeroCumulRow(s.cumul, LastOpesAt(s.n_opes, a.ope, a.job, s.biases))
        fo1 == StepFeatOpes(s.feat, a.ope, a.job, pt, s.time, cumul1, s.biases,
                            s.ends, s.appertain)
        step1 == AdvanceOpeStep(s.step, a.job)
        mjp1 == [s.mjp EXCEPT ![a.job] = TRUE]
        mmp1 == [s.mmp EXCEPT ![a.ma] = TRUE]
        mjf1 == RefreshJobFinish(s.mjf, step1, s.ends)
    IN SoloStepAssign(s, a, Eager(adj1), Eager(proc1), Eager(cumul1), Eager(fo1),
                      Eager(step1), Eager(mjp1), Eager(mmp1), Eager(mjf1))

\* the while condition of step() on a batch of one
SoloNeedTrans(s) == s.flag = 0 /\ ~s.done

\* One iteration of the while loop of step() on a batch of one: next_time()
\* with the fill value taken over the instance's own completion times,
\* then if_no_eligible()
SoloNextTime(s) ==
    LET fill == MaxOf({s.feat[4][o] : o \in DOMAIN s.feat[4]}) + TimeUnit
        c == MinOf({ IF s.mach[m].available_time > s.time
                     THEN s.mach[m].available_time ELSE fill : m \in Mas })
        d == {m \in Mas : /\ s.mach[m].available_time = c
                          /\ s.mach[m].idle = 0
                          /\ SoloNeedTrans(s)}
        jobs == {s.mach[m].id_ope : m \in d}
        mjp1 == [j \in Jobs |-> IF j \in jobs THEN FALSE ELSE s.mjp[j]]
        mmp1 == [m \in Mas |-> IF m \in d THEN FALSE ELSE s.mmp[m]]
        mjf1 == RefreshJobFinish(s.mjf, s.step, s.ends)
    IN [s EXCEPT !.time = IF SoloNeedTrans(s) THEN c ELSE s.time,
                 !.mach = [m \in Mas |-> IF m \in d THEN [s.mach[m] EXCEPT !.idle = 1]
                                         ELSE s.mach[m]],
                 !.mjp = mjp1, !.mmp = mmp1, !.mjf = mjf1,
                 !.flag = IfNoEligible(s.proc, s.step, s.ends, mjp1, mjf1, mmp1)]

\* The shadows after a step() of the batch: the shadow of an instance the
\* caller still sends decisions for takes that instance's decision
SoloAfterStep(actions) ==
    [solo EXCEPT !.run = [b \in DOMAIN solo.run |->
        IF b \in Active THEN SoloStep(solo.run[b], actions[Pos(b)])
        ELSE solo.run[b]]]

\* The shadows after one iteration of the batch's loop: each one iterates
\* while its own while condition holds
SoloAfterNextTime ==
    [solo EXCEPT !.run = [b \in DOMAIN solo.run |->
        IF SoloNeedTrans(solo.run[b]) THEN SoloNextTime(solo.run[b])
        ELSE solo.run[b]]]

\* The assignments of step() before its while loop, from the tensors the
\* decisions give: the schedule, the machines and their features, the
\* done flags, the rewards and the stall flags of the whole batch.
StepAssign(actions, adj1, proc1, proc_times, cumul1, fo1, step1, mjp1, mmp1, mjf1) ==
    LET act(b) == actions[Pos(b)]
        sched1 == [b \in Batch |->
                   IF b \in Active
                   THEN StepSchedules(schedules_batch[b], fo1[b], act(b).ope, act(b).ma)
                   ELSE schedules_batch[b]]
        mach1 == [b \in Batch |->
                   IF b \in Active
                   THEN StepMachines(machines_batch[b], act(b).ma, act(b).job,
                                     proc_times[b], time[b])
                   ELSE machines_batch[b]]
        fm1 == [b \in Batch |->
                   IF b \in Active
                   THEN StepFeatMas(feat_mas_batch[b], adj1[b], mach1[b], act(b).ma,
                                    proc_times[b], time[b])
                   ELSE feat_mas_batch[b]]
        max_val == [b \in Batch |-> MaxJobEnd(fo1[b])]
    IN /\ N' = [b \in Batch |-> N[b] + 1]
       /\ ope_ma_adj_batch' = adj1
       /\ proc_times_batch' = proc1
       /\ cal_cumul_adj_batch' = cumul1
       /\ feat_opes_batch' = fo1
       /\ schedules_batch' = sched1
       /\ machines_batch' = mach1
       /\ feat_mas_batch' = fm1
       /\ ope_step_batch' = step1
       /\ mask_job_procing_batch' = mjp1
       /\ mask_ma_procing_batch' = mmp1
       /\ mask_job_finish_batch' = mjf1
       /\ done_batch' = [b \in Batch |-> \A j \in Jobs : mjf1[b][j]]
       /\ reward_batch' = [b \in Batch |-> Reward(makespan_batch[b], max_val[b])]
       /\ makespan_batch' = max_val
       /\ flag_trans_2_next_time' =
             [b \in Batch |-> IfNoEligible(proc1[b], step1[b], end_ope_biases_batch[b],
                                           mjp1[b], mjf1[b], mmp1[b])]
       /\ reward_sum' = [b \in Batch |-> reward_sum[b] + reward_batch'[b]]
       /\ iters' = 0
       /\ pc' = "loop"
       /\ gantt_result' = "none"
       /\ last_op' = "step"
       /\ rounds_before_reset' = 0
       /\ actions_taken' = actions
       /\ solo' = SoloAfterStep(actions)
       /\ replay' = replay
       /\ misuses' = IF \A k \in 1 .. Len(batch_idxes) :
                            LegalDecision(batch_idxes[k], actions[k])
                     THEN misuses ELSE misuses + 1
       /\ UNCHANGED << statics, olds, fresh, batch_idxes, time, state >>

\* The part of step() before its while loop: every active instance applies
\* its decision, then the masks, done flags, rewards and stall flags of the
\* whole batch are recomputed.
Step(actions) ==
    LET act(b) == actions[Pos(b)]
        adj1 == [b \in Batch |->
                   IF b \in Active
                   THEN PruneOpeMaAdj(ope_ma_adj_batch[b], act(b).ope, act(b).ma)
                   ELSE ope_ma_adj_batch[b]]
        proc1 == [b \in Batch |-> MaskProcTimes(proc_times_batch[b], adj1[b])]
        proc_times == [b \in Batch |->
                   IF b \in Active THEN proc1[b][act(b).ope][act(b).ma] ELSE 0]
        cumul1 == [b \in Batch |->
                   IF b \in Active
                   THEN ZeroCumulRow(cal_cumul_adj_batch[b],
                            LastOpes(act(b).ope, act(b).job, num_ope_biases_batch[b]))
                   ELSE cal_cumul_adj_batch[b]]
        fo1 == [b \in Batch |->
                   IF b \in Active
                   THEN StepFeatOpes(feat_opes_batch[b], act(b).ope, act(b).job,
                            proc_times[b], time[b], cumul1[b], num_ope_biases_batch[b],
                            end_ope_biases_batch[b], opes_appertain_batch[b])
                   ELSE feat_opes_batch[b]]
        step1 == [b \in Batch |->
                   IF b \in Active
                   THEN AdvanceOpeStep(ope_step_batch[b], act(b).job)
                   ELSE ope_step_batch[b]]
        mjp1 == [b \in Batch |->
                   IF b \in Active
                   THEN [mask_job_procing_batch[b] EXCEPT ![act(b).job] = TRUE]
                   ELSE mask_job_procing_batch[b]]
        mmp1 == [b \in Batch |->
                   IF b \in Active
                   THEN [mask_ma_procing_batch[b] EXCEPT ![act(b).ma] = TRUE]
                   ELSE mask_ma_procing_batch[b]]
        mjf1 == [b \in Batch |->
                   RefreshJobFinish(mask_job_finish_batch[b], step1[b],
                                    end_ope_biases_batch[b])]
    IN StepAssign(actions, Eager(adj1), Eager(proc1), Eager(proc_times),
                  Eager(cumul1), Eager(fo1), Eager(step1), Eager(mjp1),
                  Eager(mmp1), Eager(mjf1))

\* The caller (schedule() in test.py, main() in train.py) calls step() with
\* the policy's decisions while some instance is not done; once it has
\* called validate_gantt() it calls reset() before it schedules again.
StepLegal ==
    /\ pc = "idle"
    /\ gantt_result = "none"
    /\ \E b \in Batch : ~done_batch[b]
    /\ \E actions \in LegalActions : Step(actions)

\* ---------------------------------------------------------------- next_time()
\* an instance taken to need the transit as soon as some instance of the
\* batch is stalled and not done
FlagNeedTransAny(b) ==
    \E b2 \in Batch : flag_trans_2_next_time[b2] = 0 /\ ~done_batch[b2]

\* the done flag left out of the test
FlagNeedTransDone(b) == flag_trans_2_next_time[b] = 0

\* flag_need_trans: stalled and not done
FlagNeedTrans(b) == flag_trans_2_next_time[b] = 0 /\ ~done_batch[b]

\* the value put in place of the available times that are not in the future:
\* the largest job completion time of the whole batch, plus 1.0
Fallback ==
    MaxOf({feat_opes_batch[b][4][o] : b \in Batch, o \in Opes}) + TimeUnit

\* the largest of the later available times instead of the smallest
NextClockLatest(b) ==
    LET later == {machines_batch[b][m].available_time : m \in Mas}
                    \cap {t \in Nat : t > time[b]}
    IN IF later = {} THEN Fallback ELSE MaxOf(later)

\* the minimum taken over the machines of the whole batch
NextClockBatchMin(b) ==
    MinOf({ IF machines_batch[b2][m].available_time > time[b2]
            THEN machines_batch[b2][m].available_time ELSE Fallback :
            b2 \in Batch, m \in Mas })

\* the available times that are not in the future replaced by 0
NextClockZeroFill(b) ==
    MinOf({ IF machines_batch[b][m].available_time > time[b]
            THEN machines_batch[b][m].available_time ELSE 0 : m \in Mas })

\* c: the smallest available time greater than the clock, per instance
NextClock(b) ==
    MinOf({ IF machines_batch[b][m].available_time > time[b]
            THEN machines_batch[b][m].available_time ELSE Fallback : m \in Mas })

\* the machines still running at the new clock taken as completed too
CompletedOrLater(b, m) ==
    /\ machines_batch[b][m].available_time >= NextClock(b)
    /\ machines_batch[b][m].idle = 0
    /\ FlagNeedTrans(b)

\* the completed machines detected in the instances that need no transit too
CompletedIgnoringFlag(b, m) ==
    /\ machines_batch[b][m].available_time = NextClock(b)
    /\ machines_batch[b][m].idle = 0

\* every busy machine of a stalled instance taken as completed
CompletedAnyBusy(b, m) ==
    /\ machines_batch[b][m].idle = 0
    /\ FlagNeedTrans(b)

\* only the first machine can complete
CompletedFirstOnly(b, m) ==
    /\ m = 0
    /\ machines_batch[b][m].available_time = NextClock(b)
    /\ machines_batch[b][m].idle = 0
    /\ FlagNeedTrans(b)

\* d: the machines that complete at that time
Completed(b, m) ==
    /\ machines_batch[b][m].available_time = NextClock(b)
    /\ machines_batch[b][m].idle = 0
    /\ FlagNeedTrans(b)

\* the index of the completed machine taken for the job it was serving
ReleasedJobsByMachine(b) == {m \in Mas : Completed(b, m)} \cap Jobs

\* every job in process released as soon as some machine completes
ReleasedJobsAll(b) ==
    IF \E m \in Mas : Completed(b, m)
    THEN {j \in Jobs : mask_job_procing_batch[b][j]} ELSE {}

\* the jobs the completed machines were serving
ReleasedJobs(b) == {machines_batch[b][m].id_ope : m \in {x \in Mas : Completed(b, x)}}

\* the loop run only while every instance is stalled
LoopCondAll == \A b \in Batch : FlagNeedTrans(b)

\* the while condition of step(): some instance is stalled and not done
LoopCond == \E b \in Batch : FlagNeedTrans(b)

\* One iteration of the while loop of step(): next_time(), then
\* if_no_eligible().
NextTime ==
    /\ pc = "loop"
    /\ LoopCond
    /\ LET e == [b \in Batch |-> IF FlagNeedTrans(b) THEN NextClock(b) ELSE time[b]]
           mach1 == [b \in Batch |-> [m \in Mas |->
                       IF Completed(b, m)
                       THEN [machines_batch[b][m] EXCEPT !.idle = 1]
                       ELSE machines_batch[b][m]]]
           mjp1 == [b \in Batch |-> [j \in Jobs |->
                       IF j \in ReleasedJobs(b) THEN FALSE
                       ELSE mask_job_procing_batch[b][j]]]
           mmp1 == [b \in Batch |-> [m \in Mas |->
                       IF Completed(b, m) THEN FALSE ELSE mask_ma_procing_batch[b][m]]]
           mjf1 == [b \in Batch |->
                       RefreshJobFinish(mask_job_finish_batch[b], ope_step_batch[b],
                                        end_ope_biases_batch[b])]
       IN /\ time' = e
          /\ machines_batch' = mach1
          /\ feat_mas_batch' = [b \in Batch |->
                [feat_mas_batch[b] EXCEPT ![2] =
                    [m \in Mas |-> Utiliz(mach1[b][m].utilization_time, e[b], 5)]]]
          /\ mask_job_procing_batch' = mjp1
          /\ mask_ma_procing_batch' = mmp1
          /\ mask_job_finish_batch' = mjf1
          /\ flag_trans_2_next_time' =
                [b \in Batch |-> IfNoEligible(proc_times_batch[b], ope_step_batch[b],
                                    end_ope_biases_batch[b], mjp1[b], mjf1[b], mmp1[b])]
    /\ iters' = IF iters < MaxIters THEN iters + 1 ELSE iters
    /\ last_op' = "next_time"
    /\ solo' = SoloAfterNextTime
    /\ replay' = replay
    /\ UNCHANGED << statics, olds, fresh, proc_times_batch, ope_ma_adj_batch,
                    cal_cumul_adj_batch, feat_opes_batch, batch_idxes, N,
                    ope_step_batch, schedules_batch, makespan_batch, done_batch,
                    reward_batch, state, pc, gantt_result, reward_sum,
                    rounds_before_reset, actions_taken, misuses >>

\* ---------------------------------------------------------------- end of step()
\* the count compared without the + 1
MaskFinishLate(b) == N[b] <= nums_opes[b]

\* mask_finish = (N + 1) <= nums_opes: True for the uncompleted instances
MaskFinish(b) == N[b] + 1 <= nums_opes[b]

\* torch.arange(batch_size)[mask_finish]
UncompletedIdxes == SelectSeq(Arange(batch_size), LAMBDA b : MaskFinish(b))

\* the pointers stored in the place of the last-operation indices too
UpdateOverEnds(st, idx, fo, fm, pt, adj, mjp, mjf, mmp, step, t) ==
    [st EXCEPT !.batch_idxes = idx, !.feat_opes_batch = fo, !.feat_mas_batch = fm,
               !.proc_times_batch = pt, !.ope_ma_adj_batch = adj,
               !.mask_job_procing_batch = mjp, !.mask_job_finish_batch = mjf,
               !.mask_ma_procing_batch = mmp, !.ope_step_batch = step,
               !.end_ope_biases_batch = step, !.time_batch = t]

\* EnvState.update(): only the ten dynamic fields are replaced
Update(st, idx, fo, fm, pt, adj, mjp, mjf, mmp, step, t) ==
    [st EXCEPT !.batch_idxes = idx, !.feat_opes_batch = fo, !.feat_mas_batch = fm,
               !.proc_times_batch = pt, !.ope_ma_adj_batch = adj,
               !.mask_job_procing_batch = mjp, !.mask_job_finish_batch = mjf,
               !.mask_ma_procing_batch = mmp, !.ope_step_batch = step,
               !.time_batch = t]

\* what the caller of step() gave and got in the round that returns with
\* the active list idx: the decisions, the rewards and done flags returned,
\* and the clocks, active list and schedule it can read from the environment
ReplayRound(idx) ==
    [actions |-> actions_taken, reward_batch |-> reward_batch,
     done_batch |-> done_batch, time |-> time, batch_idxes |-> idx,
     schedules_batch |-> schedules_batch]

ReplayAfterReturn(idx) ==
    IF replay.on THEN [replay EXCEPT !.current = Append(@, ReplayRound(idx))]
    ELSE replay

\* The part of step() after its while loop: the active list and the
\* state handed to the caller.
StepReturn ==
    /\ pc = "loop"
    /\ ~LoopCond
    /\ LET idx == IF ~(\A b \in Batch : MaskFinish(b))
                  THEN UncompletedIdxes ELSE batch_idxes
       IN /\ batch_idxes' = idx
          /\ state' = Update(state, idx, feat_opes_batch, feat_mas_batch,
                             proc_times_batch, ope_ma_adj_batch,
                             mask_job_procing_batch, mask_job_finish_batch,
                             mask_ma_procing_batch, ope_step_batch, time)
          /\ replay' = ReplayAfterReturn(idx)
    /\ pc' = "idle"
    /\ last_op' = "return"
    /\ UNCHANGED << statics, olds, fresh, proc_times_batch, ope_ma_adj_batch,
                    cal_cumul_adj_batch, feat_opes_batch, feat_mas_batch, time, N,
                    ope_step_batch, mask_job_procing_batch, mask_job_finish_batch,
                    mask_ma_procing_batch, schedules_batch, machines_batch,
                    makespan_batch, done_batch, reward_batch,
                    flag_trans_2_next_time, iters, gantt_result, reward_sum,
                    rounds_before_reset, actions_taken, misuses,
                    solo >>

\* ---------------------------------------------------------------- reset()
\* the schedule rebuilt from the operation features before they are restored
ResetSchedulesStale == [b \in Batch |-> InitSchedules(num_opes, feat_opes_batch[b])]

\* schedules_batch = zeros, then start and end from feat_opes_batch, which
\* was restored just before
ResetSchedules == [b \in Batch |-> InitSchedules(num_opes, old_feat_opes_batch[b])]

\* the cumulative adjacency left as the rounds made it
ResetCalCumulAdjKept == cal_cumul_adj_batch

\* cal_cumul_adj_batch = deepcopy(old_cal_cumul_adj_batch)
ResetCalCumulAdj == old_cal_cumul_adj_batch

\* the first reset() closes the episode that followed the construction;
\* every reset() opens a new one
ReplayAfterReset ==
    IF replay.on
    THEN [on |-> TRUE,
          constructed |-> IF replay.after_reset THEN replay.constructed
                          ELSE replay.current,
          current |-> << >>,
          after_reset |-> TRUE]
    ELSE replay

\* reset(), called between two step() calls
Reset ==
    /\ pc = "idle"
    /\ proc_times_batch' = old_proc_times_batch
    /\ ope_ma_adj_batch' = old_ope_ma_adj_batch
    /\ cal_cumul_adj_batch' = ResetCalCumulAdj
    /\ feat_opes_batch' = old_feat_opes_batch
    /\ feat_mas_batch' = old_feat_mas_batch
    /\ state' = old_state
    /\ batch_idxes' = Arange(batch_size)
    /\ time' = [b \in Batch |-> 0]
    /\ N' = [b \in Batch |-> 0]
    /\ ope_step_batch' = num_ope_biases_batch
    /\ mask_job_procing_batch' = [b \in Batch |-> [j \in Jobs |-> FALSE]]
    /\ mask_job_finish_batch' = [b \in Batch |-> [j \in Jobs |-> FALSE]]
    /\ mask_ma_procing_batch' = [b \in Batch |-> [m \in Mas |-> FALSE]]
    /\ schedules_batch' = ResetSchedules
    /\ machines_batch' = [b \in Batch |-> InitMachines]
    /\ makespan_batch' = [b \in Batch |-> MaxJobEnd(old_feat_opes_batch[b])]
    /\ done_batch' = [b \in Batch |-> \A j \in Jobs : FALSE]
    /\ reward_sum' = [b \in Batch |-> 0]
    \* the locals of step() hold nothing between two calls: they are put
    \* back to what the constructed state has
    /\ flag_trans_2_next_time' =
          [b \in Batch |-> IfNoEligible(old_proc_times_batch[b], num_ope_biases_batch[b],
                              end_ope_biases_batch[b], [j \in Jobs |-> FALSE],
                              [j \in Jobs |-> FALSE], [m \in Mas |-> FALSE])]
    /\ iters' = 0
    /\ gantt_result' = "none"
    /\ last_op' = "reset"
    /\ rounds_before_reset' = IF \A b \in Batch : done_batch[b]
                               THEN MaxOf({N[b] : b \in Batch}) ELSE 0
    /\ actions_taken' = << >>
    /\ misuses' = 0
    /\ solo' = [solo EXCEPT !.run = solo.fresh]
    /\ replay' = ReplayAfterReset
    /\ UNCHANGED << statics, olds, fresh, pc, reward_batch >>

\* ---------------------------------------------------------------- validate_gantt()
\* list.sort(key=start) of the entries of one machine: a stable sort of the
\* operations, which are appended in index order
RECURSIVE SortByStart(_, _)
SortByStart(S, sched) ==
    IF S = {} THEN << >>
    ELSE LET x == CHOOSE y \in S : \A z \in S :
                     \/ sched[y].start < sched[z].start
                     \/ (sched[y].start = sched[z].start /\ y <= z)
         IN << x >> \o SortByStart(S \ {x}, sched)

\* ma_gantt_batch[b][m]: the operations of instance b whose schedule entry
\* names machine m, sorted by start time
MaGantt(b, m) ==
    SortByStart({i \in 0 .. (nums_opes[b] - 1) : schedules_batch[b][i].ma = m},
                schedules_batch[b])

\* the entries the overlap and processing-time loop looks at: all but the
\* last of each machine (the loop breaks at j == len - 1)
GanttChecked(b, m) == 1 .. (Len(MaGantt(b, m)) - 1)

FlagMaOverlap ==
    \E b \in Batch, m \in Mas : \E j \in GanttChecked(b, m) :
        schedules_batch[b][MaGantt(b, m)[j]].end
            > schedules_batch[b][MaGantt(b, m)[j + 1]].start

FlagProcTime ==
    \E b \in Batch, m \in Mas : \E j \in GanttChecked(b, m) :
        LET i == MaGantt(b, m)[j]
        IN schedules_batch[b][i].end - schedules_batch[b][i].start
               # proc_times_batch[b][i][m]

\* Check job order and overlap
FlagOpeOverlap ==
    \E b \in Batch, i \in Jobs :
        /\ nums_ope_batch[b][i] > 1
        /\ \E j \in 0 .. (nums_ope_batch[b][i] - 2) :
              schedules_batch[b][num_ope_biases_batch[b][i] + j].end
                  > schedules_batch[b][num_ope_biases_batch[b][i] + j + 1].start

\* Check whether there are unscheduled operations
FlagUnscheduled ==
    \E b \in Batch :
        Cardinality({i \in Opes : schedules_batch[b][i].status = 1}) # nums_opes[b]

\* the verdict validate_gantt() returns
ValidateGantt == ~(FlagMaOverlap \/ FlagOpeOverlap \/ FlagProcTime \/ FlagUnscheduled)

\* the rows of schedules_batch themselves sorted by start time, instead of
\* the lists built from them
ValidateSortingSchedules ==
    /\ pc = "idle"
    /\ gantt_result' = IF ValidateGantt THEN "pass" ELSE "fail"
    /\ last_op' = "validate"
    /\ schedules_batch' = [b \in Batch |-> [i \in Opes |->
          IF i < nums_opes[b]
          THEN schedules_batch[b][SortByStart(0 .. (nums_opes[b] - 1),
                                              schedules_batch[b])[i + 1]]
          ELSE schedules_batch[b][i]]]
    /\ UNCHANGED << statics, olds, fresh, pc, flag_trans_2_next_time, iters,
                    reward_sum, rounds_before_reset, actions_taken, misuses,
                    solo, replay, proc_times_batch, ope_ma_adj_batch, cal_cumul_adj_batch,
                    feat_opes_batch, feat_mas_batch, batch_idxes, time, N,
                    ope_step_batch, mask_job_procing_batch, mask_job_finish_batch,
                    mask_ma_procing_batch, machines_batch, makespan_batch,
                    done_batch, reward_batch, state >>

\* validate_gantt() called between two step() calls
Validate ==
    /\ pc = "idle"
    /\ gantt_result' = IF ValidateGantt THEN "pass" ELSE "fail"
    /\ last_op' = "validate"
    /\ UNCHANGED << statics, dynamics, olds, fresh, pc, flag_trans_2_next_time, iters,
                    reward_sum, rounds_before_reset, actions_taken, misuses,
                    solo, replay >>

\* ---------------------------------------------------------------- specification
Next == StepLegal \/ NextTime \/ StepReturn \/ Reset \/ Validate

Spec == Init /\ [][Next]_vars

\* Batches of two instances of uneven length: every job of one instance has
\* one operation, every job of the other has MaxOpsPerJob, so that one
\* instance is done and out of the active list while the other still
\* needs rounds and next_time() iterations.
UnevenCases ==
    LET short == [j \in Jobs |-> 1]
        long == [j \in Jobs |-> MaxOpsPerJob]
    IN CasesOfShape(2, [b \in 0 .. 1 |-> IF b = 0 THEN short ELSE long])
          \cup CasesOfShape(2, [b \in 0 .. 1 |-> IF b = 0 THEN long ELSE short])

InitUneven == \E c \in UnevenCases : Construct(c) /\ solo = SoloNone /\ replay = ReplayOff

SpecUneven == InitUneven /\ [][Next]_vars

\* step() checks nothing about the actions it is given: a caller that does
\* not apply the policy's mask can pass any (operation, machine, job)
\* triple per active instance.  The batches here hold one instance, and
\* at most MaxMisuses rounds between two resets carry such a decision.
AnyActions == [1 .. Len(batch_idxes) -> Decisions]

StepAny ==
    /\ pc = "idle"
    /\ misuses < MaxMisuses
    /\ gantt_result = "none"
    /\ \E b \in Batch : ~done_batch[b]
    /\ batch_idxes # << >>
    /\ \E actions \in AnyActions : Step(actions)

\* Batches of two, every instance shadowed by an environment of batch size 1.
PairCases == {c \in Cases : Cardinality(DOMAIN c) = 2} \cup UnevenCases

SoloAll(c) == LET f == [b \in DOMAIN c |-> SoloConstruct(c[b])]
              IN [run |-> f, fresh |-> f]

InitPair == \E c \in PairCases : Construct(c) /\ solo = SoloAll(c) /\ replay = ReplayOff

SpecPair == InitPair /\ [][Next]_vars

SingleCases == {c \in Cases : Cardinality(DOMAIN c) = 1}

InitAny == \E c \in SingleCases : Construct(c) /\ solo = SoloNone /\ replay = ReplayOff

NextAny == StepAny \/ NextTime \/ StepReturn \/ Reset \/ Validate

SpecAny == InitAny /\ [][NextAny]_vars

\* A caller of the same kind on a batch of two instances of uneven length,
\* every pair eligible, durations from table 0: the shorter instance has
\* rows of padding that a decision outside the mask can name.
UnevenAnyCases ==
    LET short == [j \in Jobs |-> 1]
        longer == [j \in Jobs |-> IF j = 0 THEN MaxOpsPerJob ELSE 1]
    IN {c \in CasesOfShape(2, [b \in 0 .. 1 |-> IF b = 0 THEN short ELSE longer]) :
            \A b \in DOMAIN c : c[b].tbl = 0 /\ c[b].inel = {}}

InitUnevenAny == \E c \in UnevenAnyCases : Construct(c) /\ solo = SoloNone /\ replay = ReplayOff

\* a round in which at most one instance is given a decision outside the
\* mask
StepOneAny ==
    /\ pc = "idle"
    /\ misuses < MaxMisuses
    /\ gantt_result = "none"
    /\ \E b \in Batch : ~done_batch[b]
    /\ batch_idxes # << >>
    /\ \E actions \in AnyActions :
          /\ \E k \in 1 .. Len(batch_idxes) : \A k2 \in 1 .. Len(batch_idxes) \ {k} :
                LegalDecision(batch_idxes[k2], actions[k2])
          /\ Step(actions)

\* after the round that carried a decision outside the mask the caller
\* goes on with the policy's decisions, as long as some instance is active
\* (with none active and an instance not done, its loop would call step()
\* for ever, each call only counting in N)
StepLegalActive == batch_idxes # << >> /\ StepLegal

NextUnevenAny ==
    StepOneAny \/ StepLegalActive \/ NextTime \/ StepReturn \/ Reset \/ Validate

SpecUnevenAny == InitUnevenAny /\ [][NextUnevenAny]_vars

\* ---------------------------------------------------------------- loading
\* Instance files of a batch of one in which one operation has no machine
\* at all: its line of the file lists no (machine, duration) pair.
MalformedCases ==
    UNION { { [b \in 0 .. 0 |->
                 [nums |-> sz, tbl |-> k, inel |-> {<<o, m>> : m \in Mas}]] :
              k \in 0 .. MaxDurTable, o \in 0 .. (TotalOpes(sz) - 1) } :
            sz \in [Jobs -> 1 .. MaxOpsPerJob] }

\* the files handed to the constructor
CandidateCases == SingleCases \cup MalformedCases

\* a loader that takes every file
LoadAcceptsAll(c) == TRUE

\* The loader's check of a batch of files: every operation of every
\* instance has at least one machine with a duration.
LoadAccepts(c) ==
    \A b \in DOMAIN c : \A o \in 0 .. (TotalOpes(c[b].nums) - 1) :
        \E m \in Mas : LoadProcTime(c[b], TotalOpes(c[b].nums))[o][m] > 0

\* The constructor left by the loader's fatal error: no environment exists
\* (a batch of size 0, no call can be made on it); fresh keeps the
\* durations the loader had read when it gave up.
LoadRejected(c) ==
    /\ batch_size = 0
    /\ num_opes = 0
    /\ proc_times_batch = << >>
    /\ ope_ma_adj_batch = << >>
    /\ cal_cumul_adj_batch = << >>
    /\ ope_pre_adj_batch = << >>
    /\ ope_sub_adj_batch = << >>
    /\ opes_appertain_batch = << >>
    /\ num_ope_biases_batch = << >>
    /\ nums_ope_batch = << >>
    /\ end_ope_biases_batch = << >>
    /\ nums_opes = << >>
    /\ batch_idxes = << >>
    /\ time = << >>
    /\ N = << >>
    /\ ope_step_batch = << >>
    /\ feat_opes_batch = << >>
    /\ feat_mas_batch = << >>
    /\ mask_job_procing_batch = << >>
    /\ mask_job_finish_batch = << >>
    /\ mask_ma_procing_batch = << >>
    /\ schedules_batch = << >>
    /\ machines_batch = << >>
    /\ makespan_batch = << >>
    /\ done_batch = << >>
    /\ reward_batch = << >>
    /\ state = << >>
    /\ old_proc_times_batch = << >>
    /\ old_ope_ma_adj_batch = << >>
    /\ old_cal_cumul_adj_batch = << >>
    /\ old_feat_opes_batch = << >>
    /\ old_feat_mas_batch = << >>
    /\ old_state = << >>
    /\ pc = "rejected"
    /\ flag_trans_2_next_time = << >>
    /\ iters = 0
    /\ gantt_result = "none"
    /\ last_op = "load_error"
    /\ reward_sum = << >>
    /\ rounds_before_reset = 0
    /\ actions_taken = << >>
    /\ misuses = 0
    /\ fresh = [b \in DOMAIN c |-> LoadProcTime(c[b], TotalOpes(c[b].nums))]

InitLoad ==
    \E c \in CandidateCases :
        /\ IF LoadAccepts(c) THEN Construct(c) ELSE LoadRejected(c)
        /\ solo = SoloNone /\ replay = ReplayOff

SpecLoad == InitLoad /\ [][Next]_vars

\* Batches of two whose rounds are recorded, so that the episode after a
\* reset() can be compared with the one after the construction: every pair
\* eligible, durations from table 0, one instance of one operation per job,
\* the other with more operations.
ReplayCases ==
    {c \in PairCases :
        /\ \A b \in DOMAIN c : c[b].inel = {} /\ c[b].tbl = 0
        /\ \A j \in Jobs : c[0].nums[j] = 1
        /\ \E j \in Jobs : c[1].nums[j] > 1}

InitReplay == \E c \in ReplayCases : Construct(c) /\ solo = SoloNone /\ replay = ReplayOn

SpecReplay == InitReplay /\ [][Next]_vars

\* ---------------------------------------------------------------- properties
AllDone == \A b \in Batch : done_batch[b]

\* the scheduled operations of instance b, and the operations of its job j
Scheduled(b) == {o \in Opes : schedules_batch[b][o].status = 1}
JobOpes(b, j) == num_ope_biases_batch[b][j] .. end_ope_biases_batch[b][j]

\* C1: for a well-formed batch driven by legal decisions, once every
\* instance is done validate_gantt() returns True.
C1_ValidatePassesWhenDone == (pc = "idle" /\ AllDone) => ValidateGantt

C1_Witness ==
    /\ pc = "idle" /\ AllDone /\ gantt_result = "pass"
    /\ batch_size = 2
    /\ \E b \in Batch : time[b] > 0

\* an idle machine, a job neither in process nor finished, and that job's
\* pending (unscheduled) operation with a positive duration on the machine
EligibleTriple(b) ==
    \E j \in Jobs, m \in Mas :
        /\ ~mask_ma_procing_batch[b][m]
        /\ machines_batch[b][m].idle = 1
        /\ ~mask_job_procing_batch[b][j]
        /\ ~mask_job_finish_batch[b][j]
        /\ ope_step_batch[b][j] <= end_ope_biases_batch[b][j]
        /\ schedules_batch[b][ope_step_batch[b][j]].status = 0
        /\ proc_times_batch[b][ope_step_batch[b][j]][m] > 0

\* C2: when step() has returned, every instance that is not done has an
\* eligible triple.
C2_EligibleAfterStep ==
    pc = "idle" => \A b \in Batch : ~done_batch[b] => EligibleTriple(b)

C2_Witness ==
    /\ pc = "idle" /\ last_op = "return" /\ iters > 0
    /\ \E b \in Batch : ~done_batch[b] /\ time[b] > 0

\* C3: the clock of every instance never decreases in step() and in the
\* next_time() iterations inside it; only reset() takes it back (to 0).
C3_ClockMonotonic ==
    [][ /\ last_op' # "reset" => \A b \in Batch : time'[b] >= time[b]
        /\ last_op' = "reset" => \A b \in Batch : time'[b] = 0 ]_vars

C3_Witness ==
    /\ last_op = "next_time"
    /\ \E b \in Batch : time[b] > 0 /\ N[b] >= 2

\* C4: the while loop of step() runs next_time() at most num_mas times in
\* a round.
C4_LoopWithinNumMas == iters <= num_mas

C4_Witness == pc = "idle" /\ last_op = "return" /\ iters = num_mas

\* C5: instance b is done exactly from round nums_opes[b] on (N counts the
\* rounds), so every instance is done after max nums_opes rounds.
C5_DoneAfterNumsOpesRounds ==
    \A b \in Batch : done_batch[b] <=> N[b] >= nums_opes[b]

C5_Witness ==
    /\ pc = "idle"
    /\ \E b, c \in Batch : done_batch[b] /\ N[b] = nums_opes[b] /\ ~done_batch[c]

\* C6: after any number of rounds reset() leaves every dynamic field, the
\* state snapshot included, equal to its value right after construction.
C6_ResetRestoresConstruction == last_op = "reset" => CurrentDynamic = fresh

C6_Witness ==
    /\ last_op = "reset"
    /\ batch_size = 2
    /\ rounds_before_reset >= 3

\* C7: the rewards of an instance summed since construction or reset()
\* equal its initial makespan estimate minus its current makespan_batch,
\* each round's reward being the makespan before minus the makespan after.
C7_RewardsTelescope ==
    \A b \in Batch : reward_sum[b] = fresh.makespan_batch[b] - makespan_batch[b]

C7_Witness ==
    \E b \in Batch :
        /\ N[b] >= 2
        /\ reward_sum[b] > 0
        /\ reward_batch[b] # reward_sum[b]

\* C8: no two scheduled operations on the same machine of an instance have
\* overlapping [start, end) intervals.
C8_NoMachineOverlap ==
    \A b \in Batch : \A o1, o2 \in Scheduled(b) :
        (o1 # o2 /\ schedules_batch[b][o1].ma = schedules_batch[b][o2].ma) =>
            \/ schedules_batch[b][o1].end <= schedules_batch[b][o2].start
            \/ schedules_batch[b][o2].end <= schedules_batch[b][o1].start

C8_Witness ==
    \E b \in Batch : \E o1, o2 \in Scheduled(b) :
        /\ o1 # o2
        /\ schedules_batch[b][o1].ma = schedules_batch[b][o2].ma
        /\ schedules_batch[b][o1].end = schedules_batch[b][o2].start

\* C9: the scheduled operations of a job are a prefix of the job, ope_step
\* is the first operation plus the number scheduled (at most last + 1), and
\* a scheduled operation starts no earlier than its predecessor ends.
C9_JobOrder ==
    \A b \in Batch : \A j \in Jobs :
        /\ Scheduled(b) \cap JobOpes(b, j)
              = {o \in JobOpes(b, j) : o < ope_step_batch[b][j]}
        /\ ope_step_batch[b][j]
              = num_ope_biases_batch[b][j] + Cardinality(Scheduled(b) \cap JobOpes(b, j))
        /\ ope_step_batch[b][j] <= end_ope_biases_batch[b][j] + 1
        /\ \A o \in Scheduled(b) \cap JobOpes(b, j) :
              o > num_ope_biases_batch[b][j] =>
                  schedules_batch[b][o].start >= schedules_batch[b][o - 1].end

C9_Witness ==
    \E b \in Batch : \E j \in Jobs : \E o \in Scheduled(b) \cap JobOpes(b, j) :
        /\ o > num_ope_biases_batch[b][j]
        /\ schedules_batch[b][o].start > schedules_batch[b][o - 1].end

\* C10: the ope_ma_adj_batch row of a scheduled operation has exactly one
\* non-zero entry, at the machine of its schedule entry, and its
\* proc_times_batch row is zero except at that machine.
C10_ScheduledRowPruned ==
    \A b \in Batch : \A o \in Scheduled(b) : \A m \in Mas :
        /\ (ope_ma_adj_batch[b][o][m] # 0) <=> (m = schedules_batch[b][o].ma)
        /\ m # schedules_batch[b][o].ma => proc_times_batch[b][o][m] = 0

C10_Witness ==
    \E b \in Batch : \E o \in Scheduled(b) : \E m \in Mas :
        /\ m # schedules_batch[b][o].ma
        /\ old_proc_times_batch[b][o][m] > 0
        /\ proc_times_batch[b][o][schedules_batch[b][o].ma] > 0

\* the operations instance b really has (the rows after them are padding)
InstanceOpes(b) == 0 .. (nums_opes[b] - 1)

\* C11: in every reachable state a job's finished mask is true if and only
\* if every operation of the job has its scheduled flag set.
C11_FinishedIffAllScheduled ==
    \A b \in Batch : \A j \in Jobs :
        mask_job_finish_batch[b][j] <=> JobOpes(b, j) \subseteq Scheduled(b)

C11_Witness ==
    /\ pc = "loop"
    /\ \E b \in Batch : \E j, k \in Jobs :
          /\ mask_job_finish_batch[b][j]
          /\ ~mask_job_finish_batch[b][k]
          /\ nums_ope_batch[b][j] = 2

\* C12: when step() has returned, a job's in-process mask is true if and
\* only if some scheduled operation of the job ends strictly after the
\* clock of its instance.
C12_ProcingIffRunning ==
    pc = "idle" =>
        \A b \in Batch : \A j \in Jobs :
            mask_job_procing_batch[b][j] <=>
                \E o \in Scheduled(b) \cap JobOpes(b, j) :
                    schedules_batch[b][o].end > time[b]

C12_Witness ==
    /\ pc = "idle" /\ last_op = "return"
    /\ \E b \in Batch : \E j, k \in Jobs :
          /\ time[b] > 0
          /\ mask_job_procing_batch[b][j]
          /\ ~mask_job_procing_batch[b][k]
          /\ Scheduled(b) \cap JobOpes(b, k) # {}

\* C13: the available time of every machine never decreases in step() and
\* in the next_time() iterations inside it.
C13_AvailableTimeMonotonic ==
    [][last_op' # "reset" =>
          \A b \in Batch : \A m \in Mas :
              machines_batch'[b][m].available_time
                  >= machines_batch[b][m].available_time]_vars

C13_Witness ==
    /\ last_op = "step"
    /\ \E b \in Batch : \E o1, o2 \in Scheduled(b) :
          /\ o1 # o2
          /\ schedules_batch[b][o1].ma = schedules_batch[b][o2].ma
          /\ machines_batch[b][schedules_batch[b][o1].ma].available_time
                = schedules_batch[b][o2].end
          /\ schedules_batch[b][o1].end < schedules_batch[b][o2].start

\* C14: when step() has returned, batch_idxes is the ascending list of the
\* instances with fewer scheduled operations than operations, and an
\* instance that left the list does not come back before reset().
C14_ActiveSet ==
    /\ [](pc = "idle" =>
            batch_idxes = SelectSeq(Arange(batch_size),
                LAMBDA b : Cardinality(Scheduled(b) \cap InstanceOpes(b)) < nums_opes[b]))
    /\ [][last_op' # "reset" => Active' \subseteq Active]_vars

C14_Witness ==
    /\ pc = "idle" /\ last_op = "return"
    /\ batch_idxes = << 1 >>
    /\ batch_size = 2

\* C15: once an instance has left the active list, the later rounds leave
\* its schedule entries, clock, masks, operation pointers, machine table
\* and makespan unchanged, and its reward in each of them is 0.
C15_InactiveFrame ==
    [][last_op' # "reset" =>
          \A b \in Batch \ Active :
              /\ schedules_batch'[b] = schedules_batch[b]
              /\ time'[b] = time[b]
              /\ mask_job_procing_batch'[b] = mask_job_procing_batch[b]
              /\ mask_job_finish_batch'[b] = mask_job_finish_batch[b]
              /\ mask_ma_procing_batch'[b] = mask_ma_procing_batch[b]
              /\ ope_step_batch'[b] = ope_step_batch[b]
              /\ machines_batch'[b] = machines_batch[b]
              /\ makespan_batch'[b] = makespan_batch[b]
              /\ last_op' = "step" => reward_batch'[b] = 0]_vars

C15_Witness ==
    /\ last_op = "next_time"
    /\ \E b \in Batch \ Active : \E c \in Active :
          /\ time[c] > time[b]
          /\ \E m \in Mas : /\ machines_batch[b][m].idle = 0
                            /\ machines_batch[b][m].available_time <= time[c]

\* C16: under the decisions the policy sends, the trajectory of an instance
\* (its clock, its three masks, the schedule entries of its operations, its
\* done flag, the rewards it is returned and their sum) is the one of an
\* environment of batch size 1 built from that instance alone and given the
\* same decisions, at every point of step(), the iterations of next_time()
\* included; what the other instances of the batch hold or decide has no
\* part in it.
SoloAgrees(b) ==
    LET s == solo.run[b]
    IN /\ time[b] = s.time
       /\ mask_job_procing_batch[b] = s.mjp
       /\ mask_job_finish_batch[b] = s.mjf
       /\ mask_ma_procing_batch[b] = s.mmp
       /\ \A o \in InstanceOpes(b) : schedules_batch[b][o] = s.sched[o]
       /\ done_batch[b] = s.done
       /\ reward_sum[b] = s.reward_sum
       /\ (1 <= N[b] /\ N[b] <= nums_opes[b] => reward_batch[b] = s.reward)
       /\ FlagNeedTrans(b) = SoloNeedTrans(s)

C16_InstanceIndependent == \A b \in DOMAIN solo.run : SoloAgrees(b)

\* both instances of an uneven batch done at different clocks, the longer
\* one having gone through next_time() after the shorter one was done
C16_Witness ==
    /\ DOMAIN solo.run = Batch
    /\ batch_size = 2
    /\ pc = "idle"
    /\ AllDone
    /\ nums_opes[0] # nums_opes[1]
    /\ time[0] # time[1]
    /\ \A b \in Batch : SoloAgrees(b) /\ time[b] > 0

\* C17: when an instance is done its makespan_batch is the largest end
\* time of its schedule entries.
C17_MakespanIsMaxEnd ==
    \A b \in Batch :
        done_batch[b] =>
            makespan_batch[b] = MaxOf({schedules_batch[b][o].end : o \in InstanceOpes(b)})

C17_Witness ==
    /\ batch_size = 2
    /\ \E b \in Batch :
          /\ done_batch[b]
          /\ makespan_batch[b] # fresh.makespan_batch[b]
          /\ \E j \in Jobs :
                schedules_batch[b][end_ope_biases_batch[b][j]].end < makespan_batch[b]

\* The instance of the worked example alone in a batch: 2 jobs of 2
\* operations, 2 machines, every operation eligible on both machines with
\* the durations of ScenarioDur.
IsScenario ==
    /\ batch_size = 1
    /\ num_jobs = 2 /\ num_mas = 2
    /\ \A j \in Jobs : nums_ope_batch[0][j] = 2
    /\ \A o \in 0 .. 3 : \A m \in Mas :
          old_proc_times_batch[0][o][m] = ScenarioDur[o + 1][m + 1] * TimeUnit

\* operation o is scheduled on machine m from st to en (in time units)
ScenarioEntry(o, m, st, en) ==
    /\ schedules_batch[0][o].status = 1
    /\ schedules_batch[0][o].ma = m
    /\ schedules_batch[0][o].start = st * TimeUnit
    /\ schedules_batch[0][o].end = en * TimeUnit

\* the operations in S are the scheduled ones, each on the machine ma[o]
ScenarioStage(S, ma) ==
    /\ IsScenario
    /\ Scheduled(0) = S
    /\ \A o \in S : schedules_batch[0][o].ma = ma[o]

\* C18 as the spec states it: job0-op0 on machine0, job1-op0 on machine1,
\* job0-op1 on machine1, job1-op1 on machine0, applied in that order, start
\* at 0, 0, 3, 4 and complete at 3, 9, 8, 9; the final makespan is 9 and
\* validate_gantt() passes.
C18_ScenarioAsStated ==
    LET ma == [o \in 0 .. 3 |-> IF o \in {0, 3} THEN 0 ELSE 1]
    IN /\ ScenarioStage({0}, ma) => ScenarioEntry(0, 0, 0, 3)
       /\ ScenarioStage({0, 2}, ma) =>
             ScenarioEntry(0, 0, 0, 3) /\ ScenarioEntry(2, 1, 0, 9)
       /\ ScenarioStage({0, 1, 2}, ma) =>
             /\ ScenarioEntry(0, 0, 0, 3) /\ ScenarioEntry(2, 1, 0, 9)
             /\ ScenarioEntry(1, 1, 3, 8)
       /\ (ScenarioStage({0, 1, 2, 3}, ma) /\ pc = "idle") =>
             /\ ScenarioEntry(0, 0, 0, 3) /\ ScenarioEntry(2, 1, 0, 9)
             /\ ScenarioEntry(1, 1, 3, 8) /\ ScenarioEntry(3, 0, 4, 9)
             /\ makespan_batch[0] = 9 * TimeUnit
             /\ ValidateGantt

\* C18 amended: job0-op0 on machine0, job1-op0 on machine1, job0-op1 on
\* machine0, job1-op1 on machine1, applied in that order, start at 0, 0, 3,
\* 6 and complete at 3, 6, 7, 9; the final makespan is 9 and
\* validate_gantt() passes.
C18_ScenarioLegal ==
    LET ma == [o \in 0 .. 3 |-> IF o \in {0, 1} THEN 0 ELSE 1]
    IN /\ ScenarioStage({0}, ma) => ScenarioEntry(0, 0, 0, 3)
       /\ ScenarioStage({0, 2}, ma) =>
             ScenarioEntry(0, 0, 0, 3) /\ ScenarioEntry(2, 1, 0, 6)
       /\ ScenarioStage({0, 1, 2}, ma) =>
             /\ ScenarioEntry(0, 0, 0, 3) /\ ScenarioEntry(2, 1, 0, 6)
             /\ ScenarioEntry(1, 0, 3, 7)
       /\ (ScenarioStage({0, 1, 2, 3}, ma) /\ pc = "idle") =>
             /\ ScenarioEntry(0, 0, 0, 3) /\ ScenarioEntry(2, 1, 0, 6)
             /\ ScenarioEntry(1, 0, 3, 7) /\ ScenarioEntry(3, 1, 6, 9)
             /\ makespan_batch[0] = 9 * TimeUnit
             /\ ValidateGantt

C18_Witness ==
    /\ ScenarioStage({0, 1, 2, 3}, [o \in 0 .. 3 |-> IF o \in {0, 1} THEN 0 ELSE 1])
    /\ gantt_result = "pass"
    /\ time[0] = 6 * TimeUnit

\* the decision step() was last called with for instance b, when b was active
DecisionTaken(b) == actions_taken'[Pos(b)]

\* C19: a decision that puts an operation on a machine whose duration for
\* it is 0 is rejected by step(): the operation is not marked scheduled and
\* the state is unchanged.
C19_ZeroDurationRejected ==
    [][last_op' = "step" =>
          \A b \in Active :
              proc_times_batch[b][DecisionTaken(b).ope][DecisionTaken(b).ma] = 0 =>
                  /\ schedules_batch'[b][DecisionTaken(b).ope].status
                        = schedules_batch[b][DecisionTaken(b).ope].status
                  /\ CurrentDynamic' = CurrentDynamic]_vars

\* C20: a decision that names an operation that is not the next pending
\* one of its job, a machine that is busy, or a job that does not own the
\* operation is rejected by step() and leaves the state unchanged.
C20_IllegalDecisionRejected ==
    [][last_op' = "step" =>
          \A b \in Active :
              ( \/ DecisionTaken(b).ope # ope_step_batch[b][DecisionTaken(b).job]
                \/ mask_ma_procing_batch[b][DecisionTaken(b).ma]
                \/ opes_appertain_batch[b][DecisionTaken(b).ope] # DecisionTaken(b).job )
              => CurrentDynamic' = CurrentDynamic]_vars

\* C21: an instance in which some operation has no eligible machine is
\* rejected when the environment is constructed (every environment that
\* exists has a machine for every operation), and the time-advance loop of
\* step() is never where it cannot end: on an instance that is stalled and
\* not done while none of its machines becomes available later.
ZeroEligible(pt, b, o) == \A m \in Mas : pt[b][o][m] = 0

LoopCannotEnd ==
    /\ pc = "loop"
    /\ \E b \in Batch :
          /\ FlagNeedTrans(b)
          /\ \A m \in Mas : machines_batch[b][m].available_time <= time[b]

C21_MalformedRejected ==
    /\ pc = "rejected" =>
          \E b \in DOMAIN fresh : \E o \in DOMAIN fresh[b] : ZeroEligible(fresh, b, o)
    /\ pc # "rejected" =>
          \A b \in Batch : \A o \in InstanceOpes(b) :
              ~ZeroEligible(old_proc_times_batch, b, o)
    /\ ~LoopCannotEnd

\* the constructor has failed on a file whose operation has no machine
C21_Witness ==
    /\ pc = "rejected"
    /\ last_op = "load_error"
    /\ \E b \in DOMAIN fresh : \E o \in DOMAIN fresh[b] : ZeroEligible(fresh, b, o)

\* C22: validate_gantt() returns False whenever some schedule entry's
\* (end - start) differs from the duration the instance declares for the
\* entry's (operation, machine) pair, whichever the entry's place on its
\* machine.
DurationDiffers(b, i) ==
    schedules_batch[b][i].end - schedules_batch[b][i].start
        # old_proc_times_batch[b][i][schedules_batch[b][i].ma]

C22_WrongDurationFails ==
    (/\ last_op = "validate"
     /\ \E b \in Batch : \E i \in InstanceOpes(b) : DurationDiffers(b, i))
        => gantt_result = "fail"

\* C23: validate_gantt() returns False whenever some operation of some
\* instance has its scheduled flag not set.
C23_UnscheduledFails ==
    (/\ last_op = "validate"
     /\ \E b \in Batch : \E i \in InstanceOpes(b) : schedules_batch[b][i].status # 1)
        => gantt_result = "fail"

\* C24: validate_gantt() returns False whenever two scheduled entries on the
\* same machine of an instance overlap: one ends after the other, whose
\* start is later or equal, has started.
MachineOverlap(b, i, k) ==
    /\ i # k
    /\ schedules_batch[b][i].status = 1
    /\ schedules_batch[b][k].status = 1
    /\ schedules_batch[b][i].ma = schedules_batch[b][k].ma
    /\ schedules_batch[b][i].start <= schedules_batch[b][k].start
    /\ schedules_batch[b][i].end > schedules_batch[b][k].start

C24_OverlapFails ==
    (/\ last_op = "validate"
     /\ \E b \in Batch : \E i, k \in InstanceOpes(b) : MachineOverlap(b, i, k))
        => gantt_result = "fail"

\* C25: validate_gantt() changes no simulation state: schedule entries,
\* processing times, clock, masks, machine table and active set (and every
\* other dynamic field) are after the call what they were before it.
C25_ValidateFrame ==
    [][last_op' = "validate" =>
          /\ schedules_batch' = schedules_batch
          /\ proc_times_batch' = proc_times_batch
          /\ time' = time
          /\ mask_job_procing_batch' = mask_job_procing_batch
          /\ mask_job_finish_batch' = mask_job_finish_batch
          /\ mask_ma_procing_batch' = mask_ma_procing_batch
          /\ machines_batch' = machines_batch
          /\ batch_idxes' = batch_idxes
          /\ CurrentDynamic' = CurrentDynamic
          /\ N' = N]_vars

\* validate_gantt() has returned on a partial schedule whose entries are
\* not in start order: an operation scheduled at a later clock has a lower
\* index than one that starts earlier
C25_Witness ==
    /\ last_op = "validate"
    /\ ~AllDone
    /\ \E b \in Batch : \E i, k \in InstanceOpes(b) :
          /\ i < k
          /\ schedules_batch[b][i].status = 1
          /\ schedules_batch[b][i].start > schedules_batch[b][k].start

\* C26: step(), next_time() and EnvState.update() never change the static
\* fields (operation-to-job mapping, precedence and successor adjacency,
\* last-operation index per job, operation count per instance), in the
\* environment or in the state handed to the caller; update() replaces
\* only the ten dynamic fields of that state.
DynamicStateFields ==
    {"batch_idxes", "feat_opes_batch", "feat_mas_batch", "proc_times_batch",
     "ope_ma_adj_batch", "mask_job_procing_batch", "mask_job_finish_batch",
     "mask_ma_procing_batch", "ope_step_batch", "time_batch"}

C26_StaticsUntouched ==
    [][last_op' \in {"step", "next_time", "return"} =>
          /\ statics' = statics
          /\ DOMAIN state' = DOMAIN state
          /\ \A f \in DOMAIN state \ DynamicStateFields : state'[f] = state[f]
          /\ state'.opes_appertain_batch = opes_appertain_batch
          /\ state'.ope_pre_adj_batch = ope_pre_adj_batch
          /\ state'.ope_sub_adj_batch = ope_sub_adj_batch
          /\ state'.end_ope_biases_batch = end_ope_biases_batch
          /\ state'.nums_opes_batch = nums_opes]_vars

\* update() has replaced every one of the ten dynamic fields that a round
\* with a next_time() iteration can change
C26_Witness ==
    /\ last_op = "return"
    /\ iters > 0
    /\ \A f \in DynamicStateFields \ {"batch_idxes"} : state[f] # old_state[f]
    /\ \A f \in DOMAIN state \ DynamicStateFields : state[f] = old_state[f]

\* stalled and not done, as step() and next_time() compute it
Stalled(b) == flag_trans_2_next_time[b] = 0 /\ ~done_batch[b]

Busy(b, m) == machines_batch[b][m].idle = 0

\* C27: in next_time() the new clock of a stalled, not-done instance is the
\* smallest available time of its busy machines: it is the available time
\* of one of them and none has an available time between the old clock
\* and the new one.
C27_ClockIsNextCompletion ==
    [][last_op' = "next_time" =>
          \A b \in Batch : Stalled(b) =>
              /\ \E m \in Mas :
                    Busy(b, m) /\ machines_batch[b][m].available_time = time'[b]
              /\ \A m \in Mas :
                    Busy(b, m) => machines_batch[b][m].available_time >= time'[b]
              /\ ~\E m \in Mas :
                    /\ Busy(b, m)
                    /\ time[b] < machines_batch[b][m].available_time
                    /\ machines_batch[b][m].available_time < time'[b]]_vars

\* after a next_time() iteration one machine of an instance has just
\* completed while another, with a later available time, is still busy
C27_Witness ==
    /\ last_op = "next_time"
    /\ \E b \in Batch : \E m1, m2 \in Mas :
          /\ machines_batch[b][m1].available_time = time[b]
          /\ machines_batch[b][m1].idle = 1
          /\ time[b] > 0
          /\ Busy(b, m2)
          /\ machines_batch[b][m2].available_time > time[b]

\* C28: under the policy's decisions on well-formed instances, a stalled,
\* not-done instance has a busy machine whose available time is greater
\* than the clock, and next_time() never sets its clock to the fallback
\* value (largest job completion time of the batch + 1).
C28_StallHasBusyMachine ==
    /\ [](\A b \in Batch : Stalled(b) =>
              \E m \in Mas : Busy(b, m) /\ machines_batch[b][m].available_time > time[b])
    /\ [][last_op' = "next_time" =>
              \A b \in Batch : Stalled(b) => time'[b] # Fallback]_vars

\* an instance of a batch of two is stalled inside step() while the other
\* one is not
C28_Witness ==
    /\ pc = "loop"
    /\ batch_size = 2
    /\ \E b \in Batch : Stalled(b)
    /\ \E b \in Batch : ~Stalled(b) /\ ~done_batch[b]

\* C29: after a next_time() iteration on a stalled instance, every machine
\* whose available time equals the new clock is idle and the job it was
\* serving is not in process, and every machine whose available time is
\* greater than the new clock is busy and its job is in process.
C29_ReleaseExactlyCompleted ==
    [][last_op' = "next_time" =>
          \A b \in Batch : Stalled(b) => \A m \in Mas :
              /\ machines_batch'[b][m].available_time = time'[b] =>
                    /\ machines_batch'[b][m].idle = 1
                    /\ ~mask_ma_procing_batch'[b][m]
                    /\ ~mask_job_procing_batch'[b][machines_batch'[b][m].id_ope]
              /\ machines_batch'[b][m].available_time > time'[b] =>
                    /\ machines_batch'[b][m].idle = 0
                    /\ mask_ma_procing_batch'[b][m]
                    /\ mask_job_procing_batch'[b][machines_batch'[b][m].id_ope]]_vars

\* two machines of an instance completed in the same next_time() iteration
C29_Witness ==
    /\ last_op = "next_time"
    /\ \E b \in Batch :
          /\ time[b] > 0
          /\ \A m \in Mas : /\ machines_batch[b][m].available_time = time[b]
                             /\ machines_batch[b][m].idle = 1
          /\ machines_batch[b][0].id_ope # machines_batch[b][1].id_ope

\* C30: a next_time() iteration strictly increases the clock of every
\* stalled, not-done instance and frees at least one of its busy machines;
\* it leaves the clock, the machine table and the job and machine masks of
\* every other instance as they were.
C30_OnlyStalledMove ==
    [][last_op' = "next_time" =>
          \A b \in Batch :
              IF Stalled(b)
              THEN /\ time'[b] > time[b]
                   /\ \E m \in Mas : Busy(b, m) /\ machines_batch'[b][m].idle = 1
              ELSE /\ time'[b] = time[b]
                   /\ machines_batch'[b] = machines_batch[b]
                   /\ mask_job_procing_batch'[b] = mask_job_procing_batch[b]
                   /\ mask_job_finish_batch'[b] = mask_job_finish_batch[b]
                   /\ mask_ma_procing_batch'[b] = mask_ma_procing_batch[b]]_vars

\* after a next_time() iteration one instance has moved its clock while
\* another, not done and with a busy machine, is still at clock 0
C30_Witness ==
    /\ last_op = "next_time"
    /\ \E b1, b2 \in Batch :
          /\ time[b1] > 0
          /\ time[b2] = 0
          /\ ~done_batch[b2]
          /\ \E m \in Mas : Busy(b2, m)

\* the decision instance b was given in the step() applied last
Chosen(b) == actions_taken[Pos(b)]

\* C31: when step() schedules an operation its schedule entry becomes
\* (scheduled, chosen machine, start = clock of the instance at the
\* decision, end = start + duration on the chosen machine), and no later
\* step() or next_time() changes the entry of a scheduled operation; only
\* reset() does.
C31_EntryFixedOnceScheduled ==
    /\ [][last_op' = "step" =>
              \A b \in Active :
                  LET a == actions_taken'[Pos(b)]
                  IN schedules_batch'[b][a.ope] =
                        [status |-> 1, ma |-> a.ma, start |-> time[b],
                         end |-> time[b] + old_proc_times_batch[b][a.ope][a.ma]]]_vars
    /\ [][last_op' # "reset" =>
              \A b \in Batch : \A o \in Scheduled(b) :
                  schedules_batch'[b][o] = schedules_batch[b][o]]_vars

\* a step() has just scheduled an operation at a positive clock while an
\* operation scheduled at clock 0 keeps its entry, whose end differs from
\* the estimate made at construction
C31_Witness ==
    /\ last_op = "step"
    /\ \E b \in Active : \E o \in Scheduled(b) :
          /\ o # Chosen(b).ope
          /\ schedules_batch[b][o].start = 0
          /\ schedules_batch[b][o].end # fresh.schedules_batch[b][o].end
          /\ time[b] > 0
          /\ schedules_batch[b][Chosen(b).ope].start = time[b]

\* the duration feature of an operation: the duration on the chosen machine
\* once scheduled, the mean over its eligible machines before
DurationFeat(b, o) == feat_opes_batch[b][2][o]

\* the operations of job j of instance b that have a predecessor in the job
WithPredecessor(b, j) == JobOpes(b, j) \ {num_ope_biases_batch[b][j]}

\* C32: once step() has been applied, every unscheduled operation that has
\* a predecessor in its job has a start equal to the predecessor's start
\* plus the predecessor's duration feature, and in the whole schedule table
\* the end of an operation is at most the start of its successor.
C32_EstimatesChain ==
    (\E b \in Batch : N[b] > 0) =>
        \A b \in Batch : \A j \in Jobs : \A o \in WithPredecessor(b, j) :
            /\ o \notin Scheduled(b) =>
                  /\ feat_opes_batch[b][5][o]
                        = feat_opes_batch[b][5][o - 1] + DurationFeat(b, o - 1)
                  /\ schedules_batch[b][o].start = feat_opes_batch[b][5][o]
            /\ schedules_batch[b][o - 1].end
                  = schedules_batch[b][o - 1].start + DurationFeat(b, o - 1)
            /\ schedules_batch[b][o - 1].end <= schedules_batch[b][o].start

\* an unscheduled operation whose predecessor was scheduled on a machine
\* whose duration differs from the mean the first estimate used, at a
\* clock that has moved since
C32_Witness ==
    /\ pc = "idle" /\ last_op = "return"
    /\ \E b \in Batch : \E j \in Jobs : \E o \in WithPredecessor(b, j) :
          /\ o \notin Scheduled(b)
          /\ (o - 1) \in Scheduled(b)
          /\ time[b] > schedules_batch[b][o - 1].start
          /\ DurationFeat(b, o - 1) # fresh.feat_opes_batch[b][2][o - 1]
          /\ schedules_batch[b][o].start # fresh.schedules_batch[b][o].start

\* C33: under the policy's decisions, the remaining-operations feature of
\* every operation is the number of unscheduled operations of its job, and
\* it is never negative.
C33_RemainingCount ==
    \A b \in Batch : \A j \in Jobs : \A o \in JobOpes(b, j) :
        /\ feat_opes_batch[b][3][o] = Cardinality(JobOpes(b, j) \ Scheduled(b))
        /\ feat_opes_batch[b][3][o] >= 0

\* a job of two operations has one left while the other job has none left
C33_Witness ==
    \E b \in Batch : \E j, k \in Jobs :
        /\ nums_ope_batch[b][j] = 2
        /\ \A o \in JobOpes(b, j) : feat_opes_batch[b][3][o] = 1
        /\ \A o \in JobOpes(b, k) : feat_opes_batch[b][3][o] = 0

\* row r of the cumulative adjacency of instance b holds only zeros
ZeroRow(cumul, b, r) == \A k \in DOMAIN cumul[b][r] : cumul[b][r][k] = 0

\* C34 as stated: when step() returns, the cumulative-adjacency row of the
\* operation it scheduled is zero.
C34_OwnRowZeroed ==
    [][last_op' = "return" =>
          \A b \in Active : ZeroRow(cal_cumul_adj_batch', b, Chosen(b).ope)]_vars

\* C34, amended: when step() returns, the cumulative-adjacency row that is
\* zero is that of the operation before the scheduled one in its job (the
\* last row of the tensor when the scheduled one is the first of its job).
C34_PredecessorRowZeroed ==
    [][last_op' = "return" =>
          \A b \in Active :
              LET a == Chosen(b)
              IN IF a.ope - 1 >= num_ope_biases_batch[b][a.job]
                 THEN ZeroRow(cal_cumul_adj_batch', b, a.ope - 1)
                 ELSE ZeroRow(cal_cumul_adj_batch', b, num_opes - 1)]_vars

\* step() has returned from scheduling the second operation of a job, and
\* the row of the first one, which held a 1 at construction, is zero
C34_Witness ==
    /\ pc = "idle" /\ last_op = "return"
    /\ \E b \in Batch : \E j \in Jobs :
          LET o == num_ope_biases_batch[b][j]
          IN /\ nums_ope_batch[b][j] = 2
             /\ (o + 1) \in Scheduled(b)
             /\ old_cal_cumul_adj_batch[b][o][o + 1] = 1
             /\ ZeroRow(cal_cumul_adj_batch, b, o)

\* C35: under the policy's decisions, a machine flagged busy has an
\* available time greater than the clock of its instance, a machine flagged
\* idle has an available time not greater than the clock, and the idle flag
\* of machines_batch agrees with mask_ma_procing_batch.
C35_BusyIffLater ==
    \A b \in Batch : \A m \in Mas :
        /\ machines_batch[b][m].idle \in {0, 1}
        /\ machines_batch[b][m].idle = 0 =>
              machines_batch[b][m].available_time > time[b]
        /\ machines_batch[b][m].idle = 1 =>
              machines_batch[b][m].available_time <= time[b]
        /\ mask_ma_procing_batch[b][m] <=> machines_batch[b][m].idle = 0

\* one machine busy until later than the clock, the other idle since a
\* time before the clock
C35_Witness ==
    \E b \in Batch : \E m1, m2 \in Mas :
        /\ machines_batch[b][m1].idle = 0
        /\ mask_ma_procing_batch[b][m1]
        /\ machines_batch[b][m2].idle = 1
        /\ machines_batch[b][m2].available_time > 0
        /\ machines_batch[b][m2].available_time < time[b]

\* C36: when step() has returned under the policy's decisions, an instance
\* is in batch_idxes if and only if it is not done, the round counter and
\* the job-finished masks giving the same verdict.
C36_ActiveIffNotDone ==
    pc = "idle" =>
        \A b \in Batch :
            /\ b \in Active <=> ~done_batch[b]
            /\ N[b] + 1 <= nums_opes[b]
                  <=> ~(\A j \in Jobs : mask_job_finish_batch[b][j])

\* step() has returned with one instance of two dropped from the list and
\* done, the other one listed and not done
C36_Witness ==
    /\ pc = "idle" /\ last_op = "return"
    /\ batch_size = 2
    /\ \E b, c \in Batch :
          /\ b \notin Active /\ done_batch[b]
          /\ c \in Active /\ ~done_batch[c]
          /\ N[c] >= 2

\* job j of instance b is flagged in process although no busy machine
\* records it as the job it serves
Orphaned(b, j) ==
    /\ mask_job_procing_batch[b][j]
    /\ ~\E m \in Mas : Busy(b, m) /\ machines_batch[b][m].id_ope = j

\* C37: step() applies a decision that names a busy machine: it overwrites
\* the machine's available time and serving-job record and leaves the job
\* the machine was serving flagged in process; no next_time() or step()
\* clears the flag of a job no machine records (unless a decision names the
\* job again), and the while loop of step(), once an instance is stalled
\* with no machine available later than its clock, never ends.
C37_BusyMachineOverwritten ==
    /\ [][last_op' = "step" =>
              \A k \in 1 .. Len(batch_idxes) :
                  LET b == batch_idxes[k]
                      a == actions_taken'[k]
                  IN Busy(b, a.ma) =>
                        /\ machines_batch'[b][a.ma].idle = 0
                        /\ machines_batch'[b][a.ma].available_time
                              = time[b] + proc_times_batch'[b][a.ope][a.ma]
                        /\ machines_batch'[b][a.ma].id_ope = a.job
                        /\ mask_job_procing_batch'[b][machines_batch[b][a.ma].id_ope]]_vars
    /\ [][last_op' # "reset" =>
              \A b \in Batch : \A j \in Jobs :
                  Orphaned(b, j) =>
                      /\ mask_job_procing_batch'[b][j]
                      /\ \/ Orphaned(b, j)'
                         \/ /\ last_op' = "step"
                            /\ \E k \in 1 .. Len(batch_idxes) :
                                  batch_idxes[k] = b /\ actions_taken'[k].job = j]_vars
    /\ [][LoopCannotEnd => (pc' = "loop" /\ LoopCannotEnd')]_vars

\* the decision applied last named a machine that was still running another
\* job's operation; that job is flagged in process with no machine serving
\* it, and the loop of the same step() goes on with no machine left to wait
\* for
C37_Witness ==
    /\ LoopCannotEnd
    /\ iters = MaxIters
    /\ \E k \in 1 .. Len(batch_idxes) :
          LET b == batch_idxes[k]
              a == actions_taken[k]
          IN /\ machines_batch[b][a.ma].id_ope = a.job
             /\ proc_times_batch[b][a.ope][a.ma] > 0
             /\ \E o \in Scheduled(b) \ {a.ope} :
                   /\ schedules_batch[b][o].ma = a.ma
                   /\ schedules_batch[b][o].start <= schedules_batch[b][a.ope].start
                   /\ schedules_batch[b][o].end > schedules_batch[b][a.ope].start
                   /\ opes_appertain_batch[b][o] # a.job
                   /\ Orphaned(b, opes_appertain_batch[b][o])

\* the largest start among the scheduled operations of instance b: the
\* start of the operation scheduled last, the clock never going back
LastStart(b) == MaxOf({schedules_batch[b][o].start : o \in Scheduled(b)})

\* C38: a done instance keeps the clock at which its last operation was
\* started, before its makespan; the machines still running at that clock
\* stay busy and their jobs in process, and nothing but reset() changes the
\* clock, the machine table or the masks of the instance.
C38_DoneClockStays ==
    /\ [](\A b \in Batch : done_batch[b] =>
              /\ time[b] = LastStart(b)
              /\ time[b] < makespan_batch[b]
              /\ \A m \in Mas :
                    machines_batch[b][m].available_time > time[b] =>
                        /\ Busy(b, m)
                        /\ mask_ma_procing_batch[b][m]
                        /\ mask_job_procing_batch[b][machines_batch[b][m].id_ope])
    /\ [][last_op' # "reset" =>
              \A b \in Batch : done_batch[b] =>
                  /\ time'[b] = time[b]
                  /\ machines_batch'[b] = machines_batch[b]
                  /\ mask_ma_procing_batch'[b] = mask_ma_procing_batch[b]
                  /\ mask_job_procing_batch'[b] = mask_job_procing_batch[b]]_vars

\* a next_time() iteration has run for the other instance, whose clock has
\* passed the available time of a machine of a done instance, and that
\* machine is still flagged busy
C38_Witness ==
    /\ last_op = "next_time"
    /\ \E b, c \in Batch :
          /\ done_batch[b]
          /\ ~done_batch[c]
          /\ time[c] > time[b]
          /\ \E m \in Mas :
                /\ Busy(b, m)
                /\ machines_batch[b][m].available_time < time[c]

\* C39: step() changes the eligibility row and the processing-time row of
\* the chosen operation only, so the rows of every operation that is still
\* unscheduled are those of the construction.
C39_UnscheduledRowsKept ==
    /\ [](\A b \in Batch : \A o \in Opes \ Scheduled(b) :
              /\ ope_ma_adj_batch[b][o] = old_ope_ma_adj_batch[b][o]
              /\ proc_times_batch[b][o] = old_proc_times_batch[b][o])
    /\ [][last_op' = "step" =>
              \A b \in Batch : \A o \in Opes :
                  (b \in Active /\ o = actions_taken'[Pos(b)].ope)
                      \/ /\ ope_ma_adj_batch'[b][o] = ope_ma_adj_batch[b][o]
                         /\ proc_times_batch'[b][o] = proc_times_batch[b][o]]_vars

\* an operation scheduled on one of its two eligible machines has lost the
\* other arc, while an unscheduled operation of the same instance still has
\* two arcs
C39_Witness ==
    \E b \in Batch : \E o1 \in Scheduled(b) : \E o2 \in InstanceOpes(b) \ Scheduled(b) :
        /\ proc_times_batch[b][o1] # old_proc_times_batch[b][o1]
        /\ \A m \in Mas : proc_times_batch[b][o2][m] > 0
        /\ N[b] >= 2

\* round k of the episode in progress was reached by the decisions that
\* reached round k of the episode that followed the construction
SameDecisionsUpTo(k) ==
    /\ k <= Len(replay.constructed)
    /\ \A i \in 1 .. k : replay.current[i].actions = replay.constructed[i].actions

\* C40: after reset(), the same sequence of decision batches as after the
\* construction gives in every round the same rewards, done flags, clocks,
\* active list and schedule entries.
C40_Replayable ==
    replay.after_reset =>
        \A k \in 1 .. Len(replay.current) :
            SameDecisionsUpTo(k) => replay.current[k] = replay.constructed[k]

\* after a reset() three rounds have been replayed with the decisions of
\* the first episode, in which an instance left the active list, a clock
\* moved and a reward was not zero
C40_Witness ==
    /\ replay.after_reset
    /\ Len(replay.current) >= 3
    /\ SameDecisionsUpTo(3)
    /\ replay.current[2].batch_idxes = << 1 >>
    /\ \E b \in Batch : replay.current[3].time[b] > 0
    /\ \E b \in Batch : \E k \in 1 .. 3 : replay.current[k].reward_batch[b] # 0

====
